---- MODULE Spec2Model ----
(***************************************************************************)
(* A state-machine model of the SQL-backed fact store (FactStoreDB):       *)
(* the value codec of the args column, the structural atom hash, the      *)
(* facts table with its atom_hash primary key, and the store operations    *)
(* Add, Contains, Remove, GetFacts, ListPredicates, EstimateFactCount,     *)
(* Merge and batchInsertFacts.                                             *)
(*                                                                         *)
(* Text is modelled as a sequence of one-character strings, so that the    *)
(* codec's prefix tests ("/", "#b") and the predicate key's split at the   *)
(* last underscore are computed and not assumed.  64-bit hash values are   *)
(* modelled as words (sequences of naturals): the per-value hash and the   *)
(* pairing function are taken to be free of accidental collisions, so two  *)
(* atom hashes are equal exactly when the code folds the same sequence of  *)
(* (hash, type) parts.                                                     *)
(***************************************************************************)
EXTENDS Integers, Sequences, FiniteSets, TLC

VARIABLES
    univ,       \* the ground atoms and patterns the callers of this run use
    store,      \* store[s]: the rows of the facts table of store s
    last,       \* the last completed call of the sequential API and its result
    adds,       \* adds[s]: counted Add calls on s that returned true
    removes,    \* removes[s]: counted Remove calls on s that returned true
    pc,         \* pc[p]: position of concurrent caller p inside its call
    call,       \* call[p]: the call caller p is executing
    inMemoryDBCounter,  \* the process-wide counter of in-memory database names
    handles,    \* the *sql.DB handles opened so far: database and open flag
    objs,       \* the FactStoreDB objects constructed so far
    conv        \* the conversion under way: its input, encoded form and result

\* The variables of the handles' life cycle.
lifecycle == <<inMemoryDBCounter, handles, objs>>

vars ==
    <<univ, store, last, adds, removes, pc, call, inMemoryDBCounter, handles, objs, conv>>

-----------------------------------------------------------------------------
(* Bounds of the model.                                                    *)

\* Cap on the counted successful Add calls and Remove calls per store.
MaxAdds == 3
\* Number of concurrent callers of Add.
NumProcs == 2
\* Rows per multi-row INSERT of the batch path (500 in the source, scaled).
batchSize == 2

\* Number of in-memory databases of a run.
NumStores == 2
\* Cap on the *sql.DB handles and on the FactStoreDB objects of a run.
MaxHandles == 3

\* The databases of a run, each with one facts table: the in-memory databases
\* factstore_1, factstore_2, ... and database 0, which a caller opens itself.
\* Merge has a destination and a source.
Stores == 0..NumStores
Procs == 1..NumProcs

-----------------------------------------------------------------------------
(* Values: ast.Constant, ast.Variable, ast.Atom.                           *)

\* A base term.  t is the type, s the symbol text, n the numeric payload
\* (Number: the integer; Float: the value in tenths), e the parts of a
\* compound (List: elements; Map/Struct: k1, v1, k2, v2, ... in the order
\* MapValues/StructValues iterate them).
Term(t, s, n, e) == [t |-> t, s |-> s, n |-> n, e |-> e]

Name(s) == Term("Name", s, 0, <<>>)
String(s) == Term("String", s, 0, <<>>)
Bytes(s) == Term("Bytes", s, 0, <<>>)
Number(n) == Term("Number", <<>>, n, <<>>)
Float64(tenths) == Term("Float", <<>>, tenths, <<>>)
List(e) == Term("List", <<>>, 0, e)
Pair(fst, snd) == Term("Pair", <<>>, 0, <<fst, snd>>)
Map(e) == Term("Map", <<>>, 0, e)
Struct(e) == Term("Struct", <<>>, 0, e)
Variable(s) == Term("Var", s, 0, <<>>)

IsConstant(x) == x.t # "Var"

PredicateSym(sym, arity) == [sym |-> sym, arity |-> arity]
Atom(sym, args) == [pred |-> PredicateSym(sym, Len(args)), args |-> args]

\* ast.NewQuery: the predicate applied to fresh variables.
NewQuery(p) == [pred |-> p, args |-> [i \in 1..p.arity |-> Variable(<<"X">>)]]

IsGround(a) == \A i \in 1..Len(a.args) : IsConstant(a.args[i])

\* The entries of a Map or Struct as a set of <<key, value>>.
Entries(c) == { <<c.e[2 * i - 1], c.e[2 * i]>> : i \in 1..(Len(c.e) \div 2) }

\* Structural equality of constants: pointwise for the ordered variants, equality
\* of the entry sets for Map and Struct (entries are scalars in this model).
ConstEquals(c, d) ==
    /\ c.t = d.t
    /\ IF c.t \in {"Map", "Struct"}
       THEN Len(c.e) = Len(d.e) /\ Entries(c) = Entries(d)
       ELSE c = d

\* Structural equality of ground atoms.
AtomEquals(a, b) ==
    /\ a.pred = b.pred
    /\ Len(a.args) = Len(b.args)
    /\ \A i \in 1..Len(a.args) : ConstEquals(a.args[i], b.args[i])

-----------------------------------------------------------------------------
(* The value codec of the args column: constantJSON.                       *)

\* A JSON value.  k is the token kind: "str" (s: the text), "num" (n: the number
\* in tenths, so the integer 1 and the float 1.0 are the same JSON number, as
\* jsontext writes both as 1), "arr" (a: the elements) and "obj" (the object
\* {"function": {"symbol": fn, "arity": n}, "args": a}).
JSON(k, s, n, a, fn) == [k |-> k, s |-> s, n |-> n, a |-> a, fn |-> fn]
JString(s) == JSON("str", s, 0, <<>>, "")
JInt(n) == JSON("num", <<>>, 10 * n, <<>>, "")
JFloat(tenths) == JSON("num", <<>>, tenths, <<>>, "")
JArray(a) == JSON("arr", <<>>, 0, a, "")
JObject(fn, arity, a) == JSON("obj", <<>>, arity, a, fn)

\* Bytes the model knows, each with the two hex digits fmt's %x writes for it.
HexTable == << <<"a", "6", "1">>, <<"b", "6", "2">> >>

RECURSIVE EncodeHex(_)
EncodeHex(s) ==
    IF s = <<>> THEN <<>>
    ELSE LET row == CHOOSE r \in { HexTable[i] : i \in 1..Len(HexTable) } : r[1] = Head(s)
         IN  <<row[2], row[3]>> \o EncodeHex(Tail(s))

\* The hex loop of the decoder: Sscanf("%02x") on each pair of digits.
RECURSIVE DecodeHex(_)
DecodeHex(h) ==
    IF h = <<>> THEN [err |-> FALSE, s |-> <<>>]
    ELSE IF Len(h) < 2 THEN [err |-> TRUE, s |-> <<>>]
    ELSE LET rows == { r \in { HexTable[i] : i \in 1..Len(HexTable) } :
                         r[2] = h[1] /\ r[3] = h[2] }
             rest == DecodeHex(SubSeq(h, 3, Len(h)))
         IN  IF rows = {} \/ rest.err THEN [err |-> TRUE, s |-> <<>>]
             ELSE [err |-> FALSE, s |-> <<(CHOOSE r \in rows : TRUE)[1]>> \o rest.s]

\* constantJSON.MarshalJSONTo.  Map and Struct entries are written in the order
\* MapValues/StructValues iterate them.
RECURSIVE MarshalJSONTo(_)
MarshalJSONTo(c) ==
    CASE c.t = "Name" -> JString(c.s)
      [] c.t = "String" -> JString(c.s)
      [] c.t = "Bytes" -> JString(<<"#", "b">> \o EncodeHex(c.s))
      [] c.t = "Number" -> JInt(c.n)
      [] c.t = "Float" -> JFloat(c.n)
      [] c.t = "List" -> JArray([i \in 1..Len(c.e) |-> MarshalJSONTo(c.e[i])])
      [] c.t = "Pair" ->
            JObject("fn:pair", 2, <<MarshalJSONTo(c.e[1]), MarshalJSONTo(c.e[2])>>)
      [] c.t = "Map" ->
            JObject("fn:map", Len(c.e), [i \in 1..Len(c.e) |-> MarshalJSONTo(c.e[i])])
      [] c.t = "Struct" ->
            JObject("fn:struct", Len(c.e), [i \in 1..Len(c.e) |-> MarshalJSONTo(c.e[i])])

NoTerm == Term("none", <<>>, 0, <<>>)
DecodeError == [err |-> TRUE, c |-> NoTerm]
Decoded(c) == [err |-> FALSE, c |-> c]

-----------------------------------------------------------------------------
(* Hash values.                                                            *)

\* The texts of the model, in a fixed order: a text's hash is its place here
\* (distinct texts have distinct hashes).
TextTable ==
    << <<"/", "a">>, <<"/", "b">>, <<"/", "c">>, <<"x">>, <<"y">>,
       <<"p">>, <<"q">>, <<"r">>, <<"d", "_", "1">>, <<"a">>, <<"b">>, <<>> >>

TextCode(s) == CHOOSE i \in 1..Len(TextTable) : TextTable[i] = s

\* fnv.New64a over the predicate symbol.
fnv64a(s) == TextCode(s)

\* ast.Constant.Hash of a scalar: Name, String and Bytes hash their symbol text,
\* Number its value, Float its bit pattern.
Hash(c) ==
    CASE c.t \in {"Name", "String", "Bytes"} -> 100 + TextCode(c.s)
      [] c.t = "Number" -> c.n
      [] c.t = "Float" -> 1000 + c.n

\* uint64(c.Type): the ast.ConstantType of the value.
TypeTag(c) ==
    CASE c.t = "Name" -> 0
      [] c.t = "String" -> 1
      [] c.t = "Bytes" -> 2
      [] c.t = "Number" -> 3
      [] c.t = "Float" -> 4
      [] c.t = "Pair" -> 5
      [] c.t = "List" -> 6
      [] c.t = "Map" -> 7
      [] c.t = "Struct" -> 8

\* szudzikElegantPair on hash words: the word of the pair is the two words in
\* order, so the pair of two values determines both.
szudzikElegantPair(fst, snd) == fst \o snd

\* sort.Sort(sortablePairs): insertion of an entry into entries sorted by key hash.
RECURSIVE InsertPair(_, _)
InsertPair(p, sorted) ==
    IF sorted = <<>> THEN <<p>>
    ELSE IF Hash(p[1]) < Hash(Head(sorted)[1]) THEN <<p>> \o sorted
    ELSE <<Head(sorted)>> \o InsertPair(p, Tail(sorted))

RECURSIVE SortPairs(_)
SortPairs(pairs) ==
    IF pairs = <<>> THEN <<>> ELSE InsertPair(Head(pairs), SortPairs(Tail(pairs)))

RECURSIVE flattenPairs(_)
flattenPairs(pairs) ==
    IF pairs = <<>> THEN <<>>
    ELSE <<Head(pairs)[1], Head(pairs)[2]>> \o flattenPairs(Tail(pairs))

\* The entries of a Map or Struct in the order its iteration yields them.
PairsOf(c) == [i \in 1..(Len(c.e) \div 2) |-> <<c.e[2 * i - 1], c.e[2 * i]>>]

\* A variant of getSortedConstants without the sort.Sort call: the entries in
\* iteration order.  The order-insensitivity of the atom hash rests on the sort.
getSortedConstantsUnsorted(c) == flattenPairs(PairsOf(c))

getSortedConstants(c) == flattenPairs(SortPairs(PairsOf(c)))

\* ast.Map / ast.Struct: the constructors list the entries by key hash.
AstEntries(constants) ==
    flattenPairs(SortPairs([i \in 1..(Len(constants) \div 2) |->
                                <<constants[2 * i - 1], constants[2 * i]>>]))

-----------------------------------------------------------------------------
(* Decoding the args column.                                               *)

\* constantJSON.UnmarshalJSONFrom: a string starting with "/" is a Name, one
\* longer than "#b" starting with "#b" is Bytes, another a String; a number
\* with an integral value is a Number, another a Float; an array is a List; an
\* object is built by its function symbol after the arity check.  null is an
\* error, and so is an object with another key than "function" and "args"
\* (kind "keyed").
RECURSIVE UnmarshalJSONFrom(_)
UnmarshalJSONFrom(j) ==
    CASE j.k = "null" -> DecodeError
      [] j.k = "keyed" -> DecodeError
      [] j.k = "str" ->
            IF Len(j.s) > 0 /\ j.s[1] = "/" THEN Decoded(Name(j.s))
            ELSE IF Len(j.s) > 2 /\ j.s[1] = "#" /\ j.s[2] = "b"
            THEN LET h == DecodeHex(SubSeq(j.s, 3, Len(j.s)))
                 IN  IF h.err THEN DecodeError ELSE Decoded(Bytes(h.s))
            ELSE Decoded(String(j.s))
      [] j.k = "num" ->
            IF j.n % 10 # 0 THEN Decoded(Float64(j.n)) ELSE Decoded(Number(j.n \div 10))
      [] j.k = "arr" ->
            LET elems == [i \in 1..Len(j.a) |-> UnmarshalJSONFrom(j.a[i])]
            IN  IF \E i \in 1..Len(elems) : elems[i].err THEN DecodeError
                ELSE Decoded(List([i \in 1..Len(elems) |-> elems[i].c]))
      [] j.k = "obj" ->
            LET args == [i \in 1..Len(j.a) |-> UnmarshalJSONFrom(j.a[i])]
                constants == [i \in 1..Len(args) |-> args[i].c]
            IN  IF \E i \in 1..Len(args) : args[i].err THEN DecodeError
                ELSE IF j.n # Len(args) THEN DecodeError
                ELSE IF j.fn = "fn:pair"
                THEN IF Len(constants) # 2 THEN DecodeError
                     ELSE Decoded(Pair(constants[1], constants[2]))
                ELSE IF j.fn = "fn:map"
                THEN IF Len(constants) % 2 # 0 THEN DecodeError
                     ELSE Decoded(Map(AstEntries(constants)))
                ELSE IF j.fn = "fn:struct"
                THEN IF Len(constants) % 2 # 0 THEN DecodeError
                     ELSE Decoded(Struct(AstEntries(constants)))
                ELSE DecodeError
      [] OTHER -> DecodeError

NoAtom == [pred |-> PredicateSym(<<>>, 0), args |-> <<>>]

\* unmarshalAtom: the atom of a row, from the pattern's predicate and the row's args.
unmarshalAtom(predicate, argsJSON) ==
    LET jsonConsts == [i \in 1..Len(argsJSON) |-> UnmarshalJSONFrom(argsJSON[i])]
    IN  IF \E i \in 1..Len(jsonConsts) : jsonConsts[i].err
        THEN [err |-> TRUE, atom |-> NoAtom]
        ELSE [err |-> FALSE,
              atom |-> [pred |-> predicate,
                        args |-> [i \in 1..Len(jsonConsts) |-> jsonConsts[i].c]]]

-----------------------------------------------------------------------------
(* Predicate keys.                                                         *)

Digits == <<"0", "1", "2", "3", "4", "5", "6", "7", "8", "9">>

\* strconv.Itoa of a non-negative number.
RECURSIVE Itoa(_)
Itoa(n) == IF n < 10 THEN <<Digits[n + 1]>> ELSE Itoa(n \div 10) \o <<Digits[(n % 10) + 1]>>

IsDigit(ch) == \E i \in 1..10 : Digits[i] = ch
DigitValue(ch) == (CHOOSE i \in 1..10 : Digits[i] = ch) - 1

\* strconv.Atoi of a text of digits; an error for anything else.
RECURSIVE AtoiDigits(_, _)
AtoiDigits(s, acc) ==
    IF s = <<>> THEN acc ELSE AtoiDigits(Tail(s), 10 * acc + DigitValue(Head(s)))

Atoi(s) ==
    IF s = <<>> \/ \E i \in 1..Len(s) : ~IsDigit(s[i])
    THEN [err |-> TRUE, n |-> 0]
    ELSE [err |-> FALSE, n |-> AtoiDigits(s, 0)]

\* predicateToKey: "symbol_arity".
predicateToKey(p) == p.sym \o <<"_">> \o Itoa(p.arity)

\* A variant of LastUnderscore: strings.Index(key, "_"), the first underscore.
FirstUnderscore(key) ==
    IF \E i \in 1..Len(key) : key[i] = "_"
    THEN CHOOSE i \in 1..Len(key) :
            key[i] = "_" /\ \A k \in 1..(i - 1) : key[k] # "_"
    ELSE 0

\* strings.LastIndex(key, "_"), 1-based; 0 when there is none.
LastUnderscore(key) ==
    IF \E i \in 1..Len(key) : key[i] = "_"
    THEN CHOOSE i \in 1..Len(key) :
            key[i] = "_" /\ \A k \in (i + 1)..Len(key) : key[k] # "_"
    ELSE 0

\* keyToPredicate: the key split at its last underscore.
keyToPredicate(key) ==
    LET lastUnderscore == LastUnderscore(key)
        arity == Atoi(SubSeq(key, lastUnderscore + 1, Len(key)))
    IN  IF lastUnderscore = 0 \/ arity.err
        THEN [err |-> TRUE, pred |-> PredicateSym(<<>>, 0)]
        ELSE [err |-> FALSE,
              pred |-> PredicateSym(SubSeq(key, 1, lastUnderscore - 1), arity.n)]

-----------------------------------------------------------------------------
(* The structural hasher and the row of an atom.                           *)

\* The hash parts one argument folds into the accumulator: a Map or Struct
\* folds its entries sorted by key hash, key then value; any other constant
\* folds itself.  Each part is pair(Hash(part), type(part)).
RECURSIVE FoldParts(_, _)
FoldParts(hashResult, parts) ==
    IF parts = <<>> THEN hashResult
    ELSE FoldParts(
            szudzikElegantPair(hashResult,
                szudzikElegantPair(<<Hash(Head(parts))>>, <<TypeTag(Head(parts))>>)),
            Tail(parts))

FoldArg(hashResult, c) ==
    IF c.t \in {"Map", "Struct"}
    THEN FoldParts(hashResult, getSortedConstants(c))
    ELSE FoldParts(hashResult, <<c>>)

RECURSIVE FoldArgs(_, _)
FoldArgs(hashResult, args) ==
    IF args = <<>> THEN hashResult
    ELSE FoldArgs(FoldArg(hashResult, Head(args)), Tail(args))

\* A variant of atomToRowForInsert that skips a non-constant argument instead
\* of returning the error.  The rejection of non-ground atoms rests on the error.
atomToRowSkippingVariables(atom) ==
    LET constants == SelectSeq(atom.args, IsConstant)
    IN  [err |-> FALSE,
         atomHash |-> FoldArgs(
             szudzikElegantPair(<<fnv64a(atom.pred.sym)>>, <<atom.pred.arity>>),
             constants),
         args |-> [i \in 1..Len(constants) |-> MarshalJSONTo(constants[i])]]

\* atomToRowForInsert: the atom hash and the encoded args, or an error when an
\* argument is not a constant.
atomToRowForInsert(atom) ==
    IF \E i \in 1..Len(atom.args) : ~IsConstant(atom.args[i])
    THEN [err |-> TRUE, atomHash |-> <<>>, args |-> <<>>]
    ELSE [err |-> FALSE,
          atomHash |-> FoldArgs(
              szudzikElegantPair(<<fnv64a(atom.pred.sym)>>, <<atom.pred.arity>>),
              atom.args),
          args |-> [i \in 1..Len(atom.args) |-> MarshalJSONTo(atom.args[i])]]

\* A row of the facts table: predicate, atom_hash (the primary key) and args.
\* fact is a history field, not a column: the atom whose insertion created the row.
Row(predicate, atomHash, args, fact) ==
    [predicate |-> predicate, atom_hash |-> atomHash, args |-> args, fact |-> fact]

-----------------------------------------------------------------------------
(* The dialect's statements, on the rows of the facts table.               *)

\* A variant of addSQL with INSERT OR REPLACE in place of ON CONFLICT DO NOTHING:
\* a conflicting row is replaced and counted as affected.
insertOrReplaceSQL(rows, row) ==
    [rows |-> { r \in rows : r.atom_hash # row.atom_hash } \cup {row}, rowsAffected |-> 1]

\* INSERT INTO facts ... ON CONFLICT DO NOTHING: one atomic statement.
addSQL(rows, row) ==
    IF \E r \in rows : r.atom_hash = row.atom_hash
    THEN [rows |-> rows, rowsAffected |-> 0]
    ELSE [rows |-> rows \cup {row}, rowsAffected |-> 1]

\* DELETE FROM facts WHERE atom_hash = ?
removeSQL(rows, atomHash) ==
    [rows |-> { r \in rows : r.atom_hash # atomHash },
     rowsAffected |-> Cardinality({ r \in rows : r.atom_hash = atomHash })]

\* SELECT COUNT(*) FROM facts WHERE atom_hash = ?
containsSQL(rows, atomHash) == Cardinality({ r \in rows : r.atom_hash = atomHash })

\* The multi-row INSERT ... ON CONFLICT DO NOTHING of one batch: the rows are
\* inserted in order, a row whose atom_hash is present being skipped.
RECURSIVE batchInsertSQL(_, _)
batchInsertSQL(rows, batch) ==
    IF batch = <<>> THEN rows
    ELSE batchInsertSQL(addSQL(rows, Head(batch)).rows, Tail(batch))

\* json_extract(doc, '$[index]') of an array; SQL NULL when there is no element.
json_extract(doc, index) ==
    IF index + 1 <= Len(doc)
    THEN [null |-> FALSE, v |-> doc[index + 1]]
    ELSE [null |-> TRUE, v |-> JString(<<>>)]

\* jsonParam: the encoded constant wrapped in a one-element array.
jsonParam(jsonStr) == <<jsonStr>>

\* getFactsFragment: json_extract(args, '$[i]') = json_extract(?, '$[0]').  SQL
\* equality holds for two non-NULL equal values: equal texts, equal numbers, or
\* the same text of an array or object.
getFactsFragment(args, index, param) ==
    LET l == json_extract(args, index)
        r == json_extract(param, 0)
    IN  ~l.null /\ ~r.null /\ l.v = r.v

\* The rows the query of GetFacts selects: the predicate key is the pattern's
\* and every constant argument of the pattern passes its filter.
getFactsQuery(rows, pattern) ==
    { r \in rows :
        /\ r.predicate = predicateToKey(pattern.pred)
        /\ \A i \in 1..Len(pattern.args) :
              IsConstant(pattern.args[i]) =>
                 getFactsFragment(r.args, i - 1,
                                  jsonParam(MarshalJSONTo(pattern.args[i]))) }

\* The orders in which the backend may return a set of rows.
RECURSIVE Orders(_)
Orders(S) ==
    IF S = {} THEN { <<>> }
    ELSE UNION { { <<x>> \o f : f \in Orders(S \ {x}) } : x \in S }

-----------------------------------------------------------------------------
(* The store's operations, as functions of the table.                      *)

\* Add: false for a non-ground atom, else whether the INSERT added a row.
Add(rows, atom) ==
    LET r == atomToRowForInsert(atom)
        res == addSQL(rows, Row(predicateToKey(atom.pred), r.atomHash, r.args, atom))
    IN  IF r.err THEN [rows |-> rows, ok |-> FALSE]
        ELSE [rows |-> res.rows, ok |-> res.rowsAffected > 0]

\* Contains: the primary-key lookup by atom hash.
Contains(rows, atom) ==
    LET r == atomToRowForInsert(atom)
    IN  IF r.err THEN FALSE ELSE containsSQL(rows, r.atomHash) > 0

\* A variant of Remove that returns true whenever the DELETE ran without error,
\* not looking at RowsAffected.
RemoveIgnoringRowsAffected(rows, atom) ==
    LET r == atomToRowForInsert(atom)
    IN  IF r.err THEN [rows |-> rows, ok |-> FALSE]
        ELSE [rows |-> removeSQL(rows, r.atomHash).rows, ok |-> TRUE]

\* Remove: false for a non-ground atom, else whether the DELETE removed a row.
Remove(rows, atom) ==
    LET r == atomToRowForInsert(atom)
        res == removeSQL(rows, r.atomHash)
    IN  IF r.err THEN [rows |-> rows, ok |-> FALSE]
        ELSE [rows |-> res.rows, ok |-> res.rowsAffected > 0]

\* A variant of EstimateFactCount counting SELECT COUNT(DISTINCT predicate).
CountDistinctPredicates(rows) == Cardinality({ r.predicate : r \in rows })

\* EstimateFactCount: SELECT COUNT(*) FROM facts.
EstimateFactCount(rows) == Cardinality(rows)

NoError == "nil"

\* A variant of the row loop that drops the callback's error and goes on with the
\* next row.
RECURSIVE getFactsLoopIgnoringCallback(_, _, _, _, _)
getFactsLoopIgnoringCallback(pattern, rowSeq, failAt, yerr, yielded) ==
    IF rowSeq = <<>> THEN [yielded |-> yielded, err |-> NoError]
    ELSE LET reconstructed == unmarshalAtom(pattern.pred, Head(rowSeq).args)
         IN  IF reconstructed.err
             THEN [yielded |-> yielded, err |-> "failed to unmarshal atom"]
             ELSE getFactsLoopIgnoringCallback(pattern, Tail(rowSeq), failAt, yerr,
                                               Append(yielded, reconstructed.atom))

\* The row loop of GetFacts over the rows in the order the backend returns them.
\* failAt is the call of the callback that returns the error yerr (0: none does).
\* The result is the atoms passed to the callback and the error GetFacts returns.
RECURSIVE getFactsLoop(_, _, _, _, _)
getFactsLoop(pattern, rowSeq, failAt, yerr, yielded) ==
    IF rowSeq = <<>> THEN [yielded |-> yielded, err |-> NoError]
    ELSE LET reconstructed == unmarshalAtom(pattern.pred, Head(rowSeq).args)
         IN  IF reconstructed.err
             THEN [yielded |-> yielded, err |-> "failed to unmarshal atom"]
             ELSE IF Len(yielded) + 1 = failAt
             THEN [yielded |-> Append(yielded, reconstructed.atom), err |-> yerr]
             ELSE getFactsLoop(pattern, Tail(rowSeq), failAt, yerr,
                               Append(yielded, reconstructed.atom))

\* GetFacts, given the order of the result rows and the callback's behaviour.
GetFacts(rowSeq, pattern, failAt, yerr) == getFactsLoop(pattern, rowSeq, failAt, yerr, <<>>)

-----------------------------------------------------------------------------
(* ListPredicates, Merge and the batch insert path.                        *)

\* ListPredicates: the distinct predicate keys that parse, as predicates.
ListPredicates(rows) ==
    { keyToPredicate(k).pred :
        k \in { key \in { r.predicate : r \in rows } : ~keyToPredicate(key).err } }

\* The rows Merge reads from the other store: for every listed predicate the
\* rows GetFacts selects for the all-variables query of that predicate.
mergeSelected(other) ==
    UNION { getFactsQuery(other, NewQuery(p)) : p \in ListPredicates(other) }

\* The orders in which the rows of the listed predicates can be read, one
\* GetFacts per predicate: the rows of one predicate in the order the backend
\* returns them.
RECURSIVE groupOrders(_, _)
groupOrders(rows, predicates) ==
    IF predicates = <<>> THEN { <<>> }
    ELSE { f \o g :
             f \in Orders(getFactsQuery(rows, NewQuery(Head(predicates)))),
             g \in groupOrders(rows, Tail(predicates)) }

\* The orders in which Merge can collect them: the predicates in the order
\* ListPredicates returns them.
mergeOrders(other) ==
    UNION { groupOrders(other, predicates) : predicates \in Orders(ListPredicates(other)) }

\* Step 1 of Merge: the facts collected by the callback, one GetFacts per predicate.
RECURSIVE collectFacts(_)
collectFacts(f) ==
    IF f = <<>> THEN <<>>
    ELSE LET n == Cardinality({ i \in 1..Len(f) : f[i].predicate = f[1].predicate })
             queryAtom == NewQuery(keyToPredicate(f[1].predicate).pred)
         IN  GetFacts(SubSeq(f, 1, n), queryAtom, 0, NoError).yielded
                 \o collectFacts(SubSeq(f, n + 1, Len(f)))

\* The pre-encoding loop of batchInsertFacts: non-ground atoms are skipped.
RECURSIVE encodeRows(_)
encodeRows(facts) ==
    IF facts = <<>> THEN <<>>
    ELSE LET r == atomToRowForInsert(Head(facts))
         IN  IF r.err THEN encodeRows(Tail(facts))
             ELSE <<Row(predicateToKey(Head(facts).pred), r.atomHash, r.args, Head(facts))>>
                      \o encodeRows(Tail(facts))

min(a, b) == IF a < b THEN a ELSE b

\* rows[i:end] for i = 0, batchSize, 2*batchSize, ...
RECURSIVE batchesOf(_)
batchesOf(rows) ==
    IF rows = <<>> THEN <<>>
    ELSE LET end == min(batchSize, Len(rows))
         IN  <<SubSeq(rows, 1, end)>> \o batchesOf(SubSeq(rows, end + 1, Len(rows)))

\* Faults of the backend during one batchInsertFacts over n batches: 0 none,
\* -1 Begin fails, k in 1..n the Exec of batch k fails, n+1 Commit fails.
Faults(n) == (-1)..(n + 1)

\* The batch loop inside the transaction: tx is the table as the transaction
\* sees it.  A failing Exec changes nothing (the statement is atomic).
RECURSIVE execBatches(_, _, _, _)
execBatches(tx, batches, k, fault) ==
    IF k > Len(batches) THEN [tx |-> tx, err |-> FALSE]
    ELSE IF fault = k THEN [tx |-> tx, err |-> TRUE]
    ELSE execBatches(batchInsertSQL(tx, batches[k]), batches, k + 1, fault)

\* A variant of batchInsertFacts without the transaction: the rows are inserted
\* one statement at a time in autocommit mode, so a failure inside batch k leaves
\* the earlier batches and the first row of batch k in the table.
batchInsertWithoutRollback(table, facts, fault) ==
    LET rows == encodeRows(facts)
        batches == batchesOf(rows)
        run == execBatches(table, batches, 1, fault)
    IN  IF rows = <<>> THEN [rows |-> table, err |-> FALSE, batches |-> <<>>]
        ELSE IF fault = -1 THEN [rows |-> table, err |-> TRUE, batches |-> batches]
        ELSE IF run.err
        THEN [rows |-> addSQL(run.tx, batches[fault][1]).rows, err |-> TRUE,
              batches |-> batches]
        ELSE IF fault = Len(batches) + 1
        THEN [rows |-> run.tx, err |-> TRUE, batches |-> batches]
        ELSE [rows |-> run.tx, err |-> FALSE, batches |-> batches]

\* A variant of batchInsertFacts with one transaction per batch: a failure at
\* batch k leaves the batches before k committed.
batchInsertCommitPerBatch(table, facts, fault) ==
    LET rows == encodeRows(facts)
        batches == batchesOf(rows)
        run == execBatches(table, batches, 1, fault)
    IN  IF rows = <<>> THEN [rows |-> table, err |-> FALSE, batches |-> <<>>]
        ELSE IF fault = -1 THEN [rows |-> table, err |-> TRUE, batches |-> batches]
        ELSE [rows |-> run.tx, err |-> run.err \/ fault = Len(batches) + 1,
              batches |-> batches]

\* batchInsertFacts: one transaction around all batches; the deferred Rollback
\* restores the table on every error return, Commit publishes the transaction.
batchInsertFacts(table, facts, fault) ==
    LET rows == encodeRows(facts)
        batches == batchesOf(rows)
        run == execBatches(table, batches, 1, fault)
    IN  IF rows = <<>> THEN [rows |-> table, err |-> FALSE, batches |-> <<>>]
        ELSE IF fault = -1 THEN [rows |-> table, err |-> TRUE, batches |-> batches]
        ELSE IF run.err THEN [rows |-> table, err |-> TRUE, batches |-> batches]
        ELSE IF fault = Len(batches) + 1
        THEN [rows |-> table, err |-> TRUE, batches |-> batches]
        ELSE [rows |-> run.tx, err |-> FALSE, batches |-> batches]

\* Merge: collect the other store's facts, then insert them by the batch path.
\* The error of batchInsertFacts is logged, not returned.
Merge(self, otherSeq, fault) ==
    LET facts == collectFacts(otherSeq)
    IN  IF Len(facts) = 0 THEN [rows |-> self, err |-> FALSE, batches |-> <<>>]
        ELSE batchInsertFacts(self, facts, fault)

-----------------------------------------------------------------------------
(* Export and import: atomJSON, WriteTo and ReadFrom.                      *)

\* An element of the exported array: the object
\* {"predicate": {"symbol": sym, "arity": arity}, "args": [...]}.  fn names
\* the keys the object has.
AtomObject(sym, arity, args) ==
    JSON("atom", <<>>, 0, <<sym, arity, JArray(args)>>, "predicate,args")

\* The object {} with no keys.
EmptyObject == JSON("atom", <<>>, 0, <<>>, "")

\* atomJSON.MarshalJSONTo: the object of an atom whose arguments are constants.
atomMarshalJSONTo(atom) ==
    IF \E i \in 1..Len(atom.args) : ~IsConstant(atom.args[i])
    THEN [err |-> TRUE, j |-> EmptyObject]
    ELSE [err |-> FALSE,
          j |-> AtomObject(JString(atom.pred.sym), JInt(atom.pred.arity),
                           [i \in 1..Len(atom.args) |-> MarshalJSONTo(atom.args[i])])]

\* Token.String: the text of a JSON string; of any other token, its JSON text.
tokenString(tok) ==
    CASE tok.k = "str" -> tok.s
      [] tok.k = "num" -> Itoa(tok.n \div 10)
      [] tok.k = "null" -> <<"n", "u", "l", "l">>
      [] tok.k = "bool" -> IF tok.n = 1 THEN <<"t", "r", "u", "e">>
                           ELSE <<"f", "a", "l", "s", "e">>

\* atomJSON.UnmarshalJSONFrom: an element that is not an object is an error; a
\* key the object lacks leaves the zero value (empty symbol, arity 0, no args);
\* an argument that does not decode is an error.  The symbol is the String of
\* its token and the arity the Int of its token, whatever their kinds:
\* Token.Int panics on a token that is not a number (the arrays of the import
\* runs hold no such element).
atomUnmarshalJSONFrom(el) ==
    IF el.k # "atom" THEN [err |-> TRUE, panic |-> FALSE, atom |-> NoAtom]
    ELSE IF el.fn = "" THEN [err |-> FALSE, panic |-> FALSE, atom |-> NoAtom]
    ELSE IF el.a[2].k # "num" THEN [err |-> FALSE, panic |-> TRUE, atom |-> NoAtom]
    ELSE LET symbol == tokenString(el.a[1])
             arity == el.a[2].n \div 10
             args == [i \in 1..Len(el.a[3].a) |-> UnmarshalJSONFrom(el.a[3].a[i])]
         IN  IF \E i \in 1..Len(args) : args[i].err
             THEN [err |-> TRUE, panic |-> FALSE, atom |-> NoAtom]
             ELSE [err |-> FALSE, panic |-> FALSE,
                   atom |-> [pred |-> PredicateSym(symbol, arity),
                             args |-> [i \in 1..Len(args) |-> args[i].c]]]

\* The characters of predicate symbols in byte order.
Alphabet == <<"/", "0", "1", "2", "_", "a", "b", "c", "d", "p", "q", "r", "x", "y">>

CharCode(ch) == CHOOSE i \in 1..Len(Alphabet) : Alphabet[i] = ch

\* a < b on texts, as Go compares strings.
RECURSIVE TextLess(_, _)
TextLess(a, b) ==
    IF b = <<>> THEN FALSE
    ELSE IF a = <<>> THEN TRUE
    ELSE IF Head(a) = Head(b) THEN TextLess(Tail(a), Tail(b))
    ELSE CharCode(Head(a)) < CharCode(Head(b))

\* The less function of the sort.Slice call in WriteTo.
predicateLess(a, b) == TextLess(a.sym, b.sym) \/ (a.sym = b.sym /\ a.arity < b.arity)

\* The orders in which WriteTo can read the rows: the predicates in sorted
\* order, the rows of one predicate in the order the backend returns them.
writeOrders(rows) ==
    UNION { groupOrders(rows, predicates) :
              predicates \in { f \in Orders(ListPredicates(rows)) :
                                 \A i, k \in 1..Len(f) :
                                     i < k => predicateLess(f[i], f[k]) } }

\* WriteTo: the elements written between "[" and "]", for one such order.
WriteTo(rowSeq) ==
    LET facts == collectFacts(rowSeq)
    IN  [open |-> TRUE,
         elems |-> [i \in 1..Len(facts) |-> atomMarshalJSONTo(facts[i]).j],
         close |-> TRUE]

\* A variant of the flush that reports success and inserts nothing, as if the
\* batch were kept for one transaction at the end of the import.
flushDiscarding(table, atomBatch, fail) ==
    [rows |-> table, err |-> fail, batches |-> <<>>]

\* One flush of ReadFrom: a batchInsertFacts call, which fails as a whole when
\* fail holds (its Exec fails and the transaction is rolled back).
flush(table, atomBatch, fail) == batchInsertFacts(table, atomBatch, IF fail THEN 1 ELSE 0)

\* A variant of the element loop that skips an element the atom decoder
\* rejects and goes on with the next one.
RECURSIVE readFromLoopSkippingInvalid(_, _, _, _, _, _, _)
readFromLoopSkippingInvalid(table, elems, close, atomBatch, decoded, flushes, failFlush) ==
    IF elems = <<>>
    THEN IF ~close
         THEN [rows |-> table, err |-> "failed to unmarshal atom from stream",
               decoded |-> decoded, flushes |-> flushes]
         ELSE IF Len(atomBatch) > 0
         THEN LET res == flush(table, atomBatch, failFlush = flushes + 1)
              IN  [rows |-> res.rows,
                   err |-> IF res.err THEN "failed to insert final batch" ELSE NoError,
                   decoded |-> decoded, flushes |-> flushes + 1]
         ELSE [rows |-> table, err |-> NoError, decoded |-> decoded, flushes |-> flushes]
    ELSE LET aj == atomUnmarshalJSONFrom(Head(elems))
             full == Append(atomBatch, aj.atom)
             res == flush(table, full, failFlush = flushes + 1)
         IN  IF aj.err
             THEN readFromLoopSkippingInvalid(table, Tail(elems), close, atomBatch,
                                              decoded + 1, flushes, failFlush)
             ELSE IF Len(full) >= batchSize
             THEN IF res.err
                  THEN [rows |-> res.rows, err |-> "failed to insert batch",
                        decoded |-> decoded + 1, flushes |-> flushes + 1]
                  ELSE readFromLoopSkippingInvalid(res.rows, Tail(elems), close, <<>>,
                                                   decoded + 1, flushes + 1, failFlush)
             ELSE readFromLoopSkippingInvalid(table, Tail(elems), close, full,
                                              decoded + 1, flushes, failFlush)

\* The element loop of ReadFrom.  decoded counts the elements handed to the
\* atom decoder, flushes the batchInsertFacts calls made; failFlush is the
\* flush that fails (0: none).
RECURSIVE readFromLoop(_, _, _, _, _, _, _)
readFromLoop(table, elems, close, atomBatch, decoded, flushes, failFlush) ==
    IF elems = <<>>
    THEN IF ~close
         THEN [rows |-> table, err |-> "failed to unmarshal atom from stream",
               decoded |-> decoded, flushes |-> flushes]
         ELSE IF Len(atomBatch) > 0
         THEN LET res == flush(table, atomBatch, failFlush = flushes + 1)
              IN  [rows |-> res.rows,
                   err |-> IF res.err THEN "failed to insert final batch" ELSE NoError,
                   decoded |-> decoded, flushes |-> flushes + 1]
         ELSE [rows |-> table, err |-> NoError, decoded |-> decoded, flushes |-> flushes]
    ELSE LET aj == atomUnmarshalJSONFrom(Head(elems))
             full == Append(atomBatch, aj.atom)
             res == flush(table, full, failFlush = flushes + 1)
         IN  IF aj.err
             THEN [rows |-> table, err |-> "failed to unmarshal atom from stream",
                   decoded |-> decoded + 1, flushes |-> flushes]
             ELSE IF Len(full) >= batchSize
             THEN IF res.err
                  THEN [rows |-> res.rows, err |-> "failed to insert batch",
                        decoded |-> decoded + 1, flushes |-> flushes + 1]
                  ELSE readFromLoop(res.rows, Tail(elems), close, <<>>, decoded + 1,
                                    flushes + 1, failFlush)
             ELSE readFromLoop(table, Tail(elems), close, full, decoded + 1, flushes,
                               failFlush)

\* ReadFrom: the opening "[" is required, then the element loop.
ReadFrom(table, stream, failFlush) ==
    IF ~stream.open
    THEN [rows |-> table, err |-> "expected JSON array start", decoded |-> 0,
          flushes |-> 0]
    ELSE readFromLoop(table, stream.elems, stream.close, <<>>, 0, 0, failFlush)

-----------------------------------------------------------------------------
(* The atoms of a run.                                                     *)

tA == <<"/", "a">>
tB == <<"/", "b">>
tC == <<"/", "c">>
tX == <<"x">>
X == Variable(<<"X">>)
Y == Variable(<<"Y">>)

\* Maps and structs with the same two entries listed in both orders.
OrderAtoms ==
    { Atom(<<"d", "_", "1">>, <<Map(<<Name(tA), Number(1), Name(tB), String(tX)>>)>>),
      Atom(<<"d", "_", "1">>, <<Map(<<Name(tB), String(tX), Name(tA), Number(1)>>)>>),
      Atom(<<"d", "_", "1">>, <<Struct(<<Name(tA), Number(1), Name(tB), String(tX)>>)>>),
      Atom(<<"d", "_", "1">>, <<Struct(<<Name(tB), String(tX), Name(tA), Number(1)>>)>>),
      Atom(<<"d", "_", "1">>, <<Name(tA)>>) }

\* Scalars: a name, a string with the same text, and a float.
ScalarAtoms ==
    { Atom(<<"p">>, <<Name(tA)>>), Atom(<<"p">>, <<String(tA)>>),
      Atom(<<"q">>, <<Float64(15)>>) }

\* Two predicates, arities 0 to 2, for pattern matching.
MatchAtoms ==
    { Atom(<<"r">>, <<Name(tA), Name(tB)>>), Atom(<<"r">>, <<Name(tA), Name(tC)>>),
      Atom(<<"r">>, <<Name(tB), Name(tC)>>), Atom(<<"r">>, <<Name(tA)>>),
      Atom(<<"q">>, <<>>) }

\* A run's callers: the ground atoms and the patterns they use, the stores
\* they call, and the atoms of the array they import (feed).
Universes ==
    { [atoms |-> OrderAtoms,
       patterns |-> { Atom(<<"d", "_", "1">>, <<X>>) },
       stores |-> {1, 2},
       feed |-> << Atom(<<"d", "_", "1">>, <<Name(tA)>>),
                   Atom(<<"d", "_", "1">>,
                        <<Map(<<Name(tB), String(tX), Name(tA), Number(1)>>)>>),
                   Atom(<<"d", "_", "1">>,
                        <<Struct(<<Name(tA), Number(1), Name(tB), String(tX)>>)>>) >>],
      [atoms |-> ScalarAtoms,
       patterns |-> { Atom(<<"p">>, <<X>>) },
       stores |-> {1, 2},
       feed |-> << Atom(<<"q">>, <<Float64(15)>>), Atom(<<"p">>, <<Name(tA)>>),
                   Atom(<<"p">>, <<String(tA)>>) >>],
      [atoms |-> MatchAtoms,
       patterns |-> { Atom(<<"r">>, <<Name(tA), X>>), Atom(<<"r">>, <<X, Name(tC)>>),
                      Atom(<<"r">>, <<X, Y>>), Atom(<<"q">>, <<X>>) },
       stores |-> {1},
       feed |-> << Atom(<<"r">>, <<Name(tA), Name(tB)>>), Atom(<<"q">>, <<>>),
                   Atom(<<"r">>, <<Name(tA)>>) >>] }

\* Elements of an imported array that are not the object of an atom with
\* decodable arguments: a number, an object whose args hold null, and {}.
NotAnObject == JInt(7)
NullArgument ==
    AtomObject(JString(<<"p">>), JInt(1), <<JSON("null", <<>>, 0, <<>>, "")>>)
Specials == {NotAnObject, NullArgument, EmptyObject}

\* The arrays a caller may hand to ReadFrom besides an export: the feed, whole
\* or with one element replaced by a special one, with "[" and "]", or lacking
\* one of them.
CraftedStreams(feed) ==
    LET elems == [i \in 1..Len(feed) |-> atomMarshalJSONTo(feed[i]).j]
        bodies == {elems} \cup { [elems EXCEPT ![k] = e] : k \in 1..Len(elems), e \in Specials }
    IN  { [open |-> TRUE, elems |-> body, close |-> TRUE] : body \in bodies }
          \cup { [open |-> FALSE, elems |-> elems, close |-> TRUE],
                 [open |-> TRUE, elems |-> elems, close |-> FALSE] }

\* The first element of the array the atom decoder rejects (0: none).
FirstInvalid(elems) ==
    IF \E i \in 1..Len(elems) : atomUnmarshalJSONFrom(elems[i]).err
    THEN CHOOSE i \in 1..Len(elems) :
            /\ atomUnmarshalJSONFrom(elems[i]).err
            /\ \A k \in 1..(i - 1) : ~atomUnmarshalJSONFrom(elems[k]).err
    ELSE 0

WellFormed(stream) == stream.open /\ stream.close /\ FirstInvalid(stream.elems) = 0

\* The errors a callback may return.
YieldErrors == {"stop", "callback failed"}

-----------------------------------------------------------------------------
(* The sequential API: every call is one step.                             *)

\* The record of an export or import: the array written or read, the store
\* src whose export the imported array is (0: none), the elements handed to
\* the atom decoder, the flushes made, and the flush that failed (0: none).
IO(stream, src, decoded, flushes, failFlush) ==
    [stream |-> stream, src |-> src, decoded |-> decoded, flushes |-> flushes,
     failFlush |-> failFlush]

NoIO == IO([open |-> TRUE, elems |-> <<>>, close |-> TRUE], 0, 0, 0, 0)

\* The record of a completed call: the operation, the store s it was made on,
\* the other store o of a Merge, the atom or pattern, the boolean result, the
\* count returned, the atoms passed to the callback, the error returned, the
\* callback's behaviour (failAt, yerr), and the batches and fault of a Merge.
Last(op, s, o, atom, ok, n, out, err, failAt, yerr, batches, fault) ==
    [op |-> op, s |-> s, o |-> o, atom |-> atom, ok |-> ok, n |-> n, out |-> out,
     err |-> err, failAt |-> failAt, yerr |-> yerr, batches |-> batches,
     fault |-> fault, io |-> NoIO]

NoCall == Last("none", 0, 0, NoAtom, FALSE, 0, <<>>, NoError, 0, NoError, <<>>, 0)

Idle == [p \in Procs |-> "idle"]
\* A conversion: the operation, its input, the encoded form and the result.
Conv(op, in, mid, out) == [op |-> op, in |-> in, mid |-> mid, out |-> out]
NoConv == Conv("none", <<>>, <<>>, <<>>)

NoAdd == [p \in Procs |-> [atom |-> NoAtom, ok |-> FALSE, overlapped |-> FALSE]]

Init ==
    /\ univ \in Universes
    /\ store = [s \in Stores |-> {}]
    /\ last = NoCall
    /\ adds = [s \in Stores |-> 0]
    /\ removes = [s \in Stores |-> 0]
    /\ pc = Idle
    /\ call = NoAdd
    /\ conv = NoConv
    /\ inMemoryDBCounter = 0
    /\ handles = <<>>
    /\ objs = <<>>

\* The atoms and patterns a caller may pass.
Inputs == univ.atoms \cup univ.patterns

\* Calls are made one at a time: a call is made when the previous call's result
\* has been taken (Return).
AddStep(s, a) ==
    LET res == Add(store[s], a)
    IN  /\ last = NoCall
        /\ store' = [store EXCEPT ![s] = res.rows]
        /\ last' = Last("add", s, 0, a, res.ok, 0, <<>>, NoError, 0, NoError, <<>>, 0)

RemoveStep(s, a) ==
    LET res == Remove(store[s], a)
    IN  /\ last = NoCall
        /\ store' = [store EXCEPT ![s] = res.rows]
        /\ last' = Last("remove", s, 0, a, res.ok, 0, <<>>, NoError, 0, NoError, <<>>, 0)

CallAdd(s, a) ==
    /\ AddStep(s, a)
    /\ UNCHANGED <<lifecycle, univ, conv, adds, removes, pc, call>>

CallRemove(s, a) ==
    /\ RemoveStep(s, a)
    /\ UNCHANGED <<lifecycle, univ, conv, adds, removes, pc, call>>

CallContains(s, a) ==
    /\ last = NoCall
    /\ last' = Last("contains", s, 0, a, Contains(store[s], a), 0, <<>>, NoError, 0,
                    NoError, <<>>, 0)
    /\ UNCHANGED <<lifecycle, univ, conv, store, adds, removes, pc, call>>

CallEstimateFactCount(s) ==
    /\ last = NoCall
    /\ last' = Last("count", s, 0, NoAtom, FALSE, EstimateFactCount(store[s]), <<>>,
                    NoError, 0, NoError, <<>>, 0)
    /\ UNCHANGED <<lifecycle, univ, conv, store, adds, removes, pc, call>>

CallGetFacts(s, pattern) ==
    /\ last = NoCall
    /\ \E rowSeq \in Orders(getFactsQuery(store[s], pattern)) :
        \E failAt \in 0..Len(rowSeq) :
          \E yerr \in (IF failAt = 0 THEN {NoError} ELSE YieldErrors) :
            LET res == GetFacts(rowSeq, pattern, failAt, yerr)
            IN  /\ last' = Last("get", s, 0, pattern, FALSE, 0, res.yielded, res.err,
                                failAt, yerr, <<>>, 0)
                /\ UNCHANGED <<lifecycle, univ, conv, store, adds, removes, pc, call>>

CallMerge(s, o) ==
    /\ last = NoCall
    /\ \E otherSeq \in mergeOrders(store[o]) :
        \E fault \in Faults(Len(batchesOf(encodeRows(collectFacts(otherSeq))))) :
          LET res == Merge(store[s], otherSeq, fault)
          IN  /\ store' = [store EXCEPT ![s] = res.rows]
              /\ last' = Last("merge", s, o, NoAtom, ~res.err, 0, <<>>, NoError, 0,
                              NoError, res.batches, fault)
              /\ UNCHANGED <<lifecycle, univ, conv, adds, removes, pc, call>>

\* The caller takes the result of its call.
Return ==
    /\ last # NoCall
    /\ last' = NoCall
    /\ UNCHANGED <<lifecycle, univ, conv, store, adds, removes, pc, call>>

Next ==
    \/ \E s \in univ.stores : \E a \in Inputs : CallAdd(s, a)
    \/ \E s \in univ.stores : \E a \in Inputs : CallContains(s, a)
    \/ \E s \in univ.stores : \E a \in Inputs : CallRemove(s, a)
    \/ \E s \in univ.stores : CallEstimateFactCount(s)
    \/ \E s \in univ.stores : \E a \in Inputs : CallGetFacts(s, a)
    \/ \E s, o \in univ.stores : CallMerge(s, o)
    \/ Return

Spec == Init /\ [][Next]_vars

-----------------------------------------------------------------------------
(* Counted Add and Remove calls on one store that starts empty.            *)

CountAdd(s, a) ==
    /\ adds[s] < MaxAdds
    /\ AddStep(s, a)
    /\ adds' = [adds EXCEPT ![s] = IF Add(store[s], a).ok THEN @ + 1 ELSE @]
    /\ UNCHANGED <<lifecycle, univ, conv, removes, pc, call>>

CountRemove(s, a) ==
    /\ RemoveStep(s, a)
    /\ removes' = [removes EXCEPT ![s] = IF Remove(store[s], a).ok THEN @ + 1 ELSE @]
    /\ UNCHANGED <<lifecycle, univ, conv, adds, pc, call>>

NextCount ==
    \/ \E a \in Inputs : CountAdd(1, a)
    \/ \E a \in Inputs : CountRemove(1, a)
    \/ CallEstimateFactCount(1)
    \/ Return

SpecCount == Init /\ [][NextCount]_vars

-----------------------------------------------------------------------------
(* Concurrent callers of Add on store 1.  A call computes the row of its   *)
(* atom (local to the caller), executes the prepared INSERT as one atomic  *)
(* statement of the backend, and returns whether a row was affected.       *)

\* The caller enters Add: atomToRowForInsert.  A non-ground atom returns false
\* without a statement.  overlapped records that another call was in progress.
AddBegin(p, a) ==
    LET r == atomToRowForInsert(a)
        busy == { q \in Procs : pc[q] \in {"exec", "ret"} }
    IN  /\ pc[p] = "idle"
        /\ pc' = [pc EXCEPT ![p] = IF r.err THEN "ret" ELSE "exec"]
        /\ call' = [q \in Procs |->
                      IF q = p THEN [atom |-> a, ok |-> FALSE, overlapped |-> busy # {}]
                      ELSE IF q \in busy THEN [call[q] EXCEPT !.overlapped = TRUE]
                      ELSE call[q]]
        /\ UNCHANGED <<lifecycle, univ, conv, store, last, adds, removes>>

\* s.addStmt.Exec: the INSERT ... ON CONFLICT DO NOTHING and its RowsAffected.
AddExec(p) ==
    LET a == call[p].atom
        r == atomToRowForInsert(a)
        res == addSQL(store[1], Row(predicateToKey(a.pred), r.atomHash, r.args, a))
    IN  /\ pc[p] = "exec"
        /\ store' = [store EXCEPT ![1] = res.rows]
        /\ call' = [call EXCEPT ![p].ok = res.rowsAffected > 0]
        /\ pc' = [pc EXCEPT ![p] = "ret"]
        /\ UNCHANGED <<lifecycle, univ, conv, last, adds, removes>>

\* The call returns its result to the caller.
AddReturn(p) ==
    /\ pc[p] = "ret"
    /\ pc' = [pc EXCEPT ![p] = "done"]
    /\ UNCHANGED <<lifecycle, univ, conv, store, last, adds, removes, call>>

NextConc ==
    \/ \E p \in Procs : \E a \in Inputs : AddBegin(p, a)
    \/ \E p \in Procs : AddExec(p)
    \/ \E p \in Procs : AddReturn(p)

SpecConc == Init /\ [][NextConc]_vars

-----------------------------------------------------------------------------
(* Export and import between the stores of a run.                          *)

CallWriteTo(s) ==
    /\ last = NoCall
    /\ \E rowSeq \in writeOrders(store[s]) :
          last' = [Last("export", s, 0, NoAtom, TRUE, 0, <<>>, NoError, 0, NoError,
                        <<>>, 0)
                     EXCEPT !.io = IO(WriteTo(rowSeq), s, 0, 0, 0)]
    /\ UNCHANGED <<lifecycle, univ, conv, store, adds, removes, pc, call>>

CallReadFrom(s, stream, src) ==
    /\ last = NoCall
    /\ \E failFlush \in (IF WellFormed(stream) THEN 0..2 ELSE {0}) :
          LET res == ReadFrom(store[s], stream, failFlush)
          IN  /\ store' = [store EXCEPT ![s] = res.rows]
              /\ last' = [Last("import", s, 0, NoAtom, res.err = NoError, 0, <<>>,
                                res.err, 0, NoError, <<>>, 0)
                             EXCEPT !.io = IO(stream, src, res.decoded, res.flushes,
                                              failFlush)]
    /\ UNCHANGED <<lifecycle, univ, conv, adds, removes, pc, call>>

NextIO ==
    \/ \E a \in univ.atoms : CallAdd(1, a)
    \/ \E s \in univ.stores : CallWriteTo(s)
    \/ \E s, o \in univ.stores : \E f \in writeOrders(store[o]) :
          CallReadFrom(s, WriteTo(f), o)
    \/ \E s \in univ.stores : \E stream \in CraftedStreams(univ.feed) :
          CallReadFrom(s, stream, 0)
    \/ Return

SpecIO == Init /\ [][NextIO]_vars

-----------------------------------------------------------------------------
(* Listing the predicates of store 1 between Add and Remove calls.          *)

\* A variant of the statement of ListPredicates without DISTINCT: SELECT
\* predicate FROM facts, the key of every row.
selectPredicate(rowSeq) == [i \in 1..Len(rowSeq) |-> rowSeq[i].predicate]

\* SELECT DISTINCT predicate FROM facts, the table read in the order rowSeq:
\* every key once, at its first row.
selectDistinctPredicate(rowSeq) ==
    LET first == { i \in 1..Len(rowSeq) :
                     \A k \in 1..(i - 1) : rowSeq[k].predicate # rowSeq[i].predicate }
        RECURSIVE pick(_)
        pick(i) == IF i > Len(rowSeq) THEN <<>>
                   ELSE IF i \in first THEN <<rowSeq[i].predicate>> \o pick(i + 1)
                   ELSE pick(i + 1)
    IN  pick(1)

\* The rows.Next() loop of ListPredicates: every key that parses is appended
\* as a predicate, a key that does not parse is skipped.
RECURSIVE listPredicatesLoop(_)
listPredicatesLoop(keys) ==
    IF keys = <<>> THEN <<>>
    ELSE LET pred == keyToPredicate(Head(keys))
         IN  IF pred.err THEN listPredicatesLoop(Tail(keys))
             ELSE <<pred.pred>> \o listPredicatesLoop(Tail(keys))

\* The slices ListPredicates may return on a table.
listings(rows) ==
    { listPredicatesLoop(selectDistinctPredicate(rowSeq)) : rowSeq \in Orders(rows) }

CallListPredicates(s) ==
    /\ last = NoCall
    /\ \E predicates \in listings(store[s]) :
          last' = Last("list", s, 0, NoAtom, TRUE, 0, predicates, NoError, 0, NoError,
                       <<>>, 0)
    /\ UNCHANGED <<lifecycle, univ, conv, store, adds, removes, pc, call>>

NextList ==
    \/ \E a \in univ.atoms : CallAdd(1, a)
    \/ \E a \in univ.atoms : CallRemove(1, a)
    \/ CallListPredicates(1)
    \/ Return

SpecList == Init /\ [][NextList]_vars

-----------------------------------------------------------------------------
(* Construction and shutdown.  Callers construct in-memory stores           *)
(* concurrently; a caller may also open a handle on database 0 itself and   *)
(* construct stores from it.  A store reaches its facts table through its   *)
(* handle, and Close releases its statements and its handle.                *)

\* A variant of dbPath that names every in-memory database alike.
dbPathShared(id) == 1

\* The database a ":memory:" store opens: "file:factstore_<id>?mode=memory&
\* cache=shared", one shared-cache in-memory database per id.
dbPath(id) == id

\* A *sql.DB handle on a database.
Handle(path) == [path |-> path, open |-> TRUE]

\* A FactStoreDB: its handle, whether its constructor opened the handle itself
\* (ownsDB), whether its prepared statements are open, and whether another
\* constructor was running when it was built.
FactStoreDB(db, ownsDB, concurrent) ==
    [db |-> db, ownsDB |-> ownsDB, stmts |-> TRUE, concurrent |-> concurrent]

\* The database of a store object.
DatabaseOf(o) == handles[objs[o].db].path

\* The atom the callers of constructed stores add.
LifeAtom == univ.feed[1]

\* NewFactStoreSQLite(":memory:"), first step: id := inMemoryDBCounter.Add(1),
\* one atomic increment.
NewFactStoreSQLiteCount(p) ==
    /\ last = NoCall
    /\ pc[p] = "idle"
    /\ inMemoryDBCounter < NumStores
    /\ inMemoryDBCounter' = inMemoryDBCounter + 1
    /\ pc' = [pc EXCEPT ![p] = "open"]
    /\ call' = [call EXCEPT ![p] = [id |-> inMemoryDBCounter + 1]]
    /\ UNCHANGED <<univ, conv, store, last, adds, removes, handles, objs>>

\* NewFactStoreSQLite, the rest: sql.Open on the path made from id, the schema
\* and the prepared statements.
NewFactStoreSQLiteOpen(p) ==
    /\ last = NoCall
    /\ pc[p] = "open"
    /\ Len(handles) < MaxHandles
    /\ Len(objs) < MaxHandles
    /\ handles' = Append(handles, Handle(dbPath(call[p].id)))
    /\ objs' = Append(objs, FactStoreDB(Len(handles) + 1, TRUE,
                                        \E q \in Procs \ {p} : pc[q] = "open"))
    /\ pc' = [pc EXCEPT ![p] = "idle"]
    /\ call' = [call EXCEPT ![p] = NoAdd[p]]
    /\ UNCHANGED <<univ, conv, store, last, adds, removes, inMemoryDBCounter>>

\* A caller opens its handle on database 0.
sqlOpen ==
    /\ last = NoCall
    /\ Len(handles) < MaxHandles
    /\ \A h \in 1..Len(handles) : handles[h].path # 0
    /\ handles' = Append(handles, Handle(0))
    /\ UNCHANGED <<univ, conv, store, last, adds, removes, pc, call, inMemoryDBCounter, objs>>

\* NewFactStore...FromDB(db): a store on the caller's handle, one per handle;
\* the schema and the statements are prepared through the handle, which must
\* be open.
NewFactStoreFromDB(h) ==
    /\ last = NoCall
    /\ handles[h].path = 0
    /\ handles[h].open
    /\ Len(objs) < MaxHandles
    /\ \A o \in 1..Len(objs) : objs[o].db # h
    /\ objs' = Append(objs, FactStoreDB(h, FALSE, FALSE))
    /\ UNCHANGED <<univ, conv, store, last, adds, removes, pc, call, inMemoryDBCounter,
                   handles>>

\* Add on a constructed store: false when the statement cannot run (statement
\* or handle closed), else Add on the table of the store's database.
ObjAdd(o, a) ==
    LET usable == objs[o].stmts /\ handles[objs[o].db].open
        res == Add(store[DatabaseOf(o)], a)
    IN  /\ last = NoCall
        /\ store' = IF usable THEN [store EXCEPT ![DatabaseOf(o)] = res.rows] ELSE store
        /\ last' = Last("add", o, 0, a, usable /\ res.ok, 0, <<>>, NoError, 0, NoError,
                        <<>>, 0)
        /\ UNCHANGED <<univ, conv, adds, removes, pc, call, lifecycle>>

\* Close, called once per store: closes the three prepared statements, then
\* s.db.Close().
Close(o) ==
    /\ last = NoCall
    /\ objs[o].stmts
    /\ objs' = [objs EXCEPT ![o].stmts = FALSE]
    /\ handles' = [handles EXCEPT ![objs[o].db].open = FALSE]
    /\ last' = Last("close", o, 0, NoAtom, TRUE, 0, <<>>, NoError, 0, NoError, <<>>, 0)
    /\ UNCHANGED <<univ, conv, store, adds, removes, pc, call, inMemoryDBCounter>>

\* The caller reads through its handle: db.QueryRow("SELECT COUNT(*) FROM facts"),
\* an error when the handle is closed.
QueryRow(h) ==
    /\ last = NoCall
    /\ handles[h].path = 0
    /\ last' = Last("query", h, 0, NoAtom, handles[h].open,
                    IF handles[h].open THEN EstimateFactCount(store[handles[h].path])
                    ELSE 0,
                    <<>>, IF handles[h].open THEN NoError ELSE "sql: database is closed",
                    0, NoError, <<>>, 0)
    /\ UNCHANGED <<univ, conv, store, adds, removes, pc, call, lifecycle>>

NextLife ==
    \/ \E p \in Procs : NewFactStoreSQLiteCount(p)
    \/ \E p \in Procs : NewFactStoreSQLiteOpen(p)
    \/ sqlOpen
    \/ \E h \in 1..Len(handles) : NewFactStoreFromDB(h)
    \/ \E o \in 1..Len(objs) : ObjAdd(o, LifeAtom)
    \/ \E o \in 1..Len(objs) : Close(o)
    \/ \E h \in 1..Len(handles) : QueryRow(h)
    \/ Return

\* The callers of constructed stores use the scalar atoms.
InitLife == Init /\ univ.atoms = ScalarAtoms

SpecLife == InitLife /\ [][NextLife]_vars

-----------------------------------------------------------------------------
(* The conversions on their own: a constant is encoded for the args column  *)
(* and decoded again; a predicate is written as a key and parsed again.     *)

\* Largest arity of the predicates written as keys.
MaxArity == 11

\* The constants of the codec runs: every variant, texts that look like
\* another variant's encoding, floats with and without a fraction, maps and
\* structs with their entries listed in both orders, and nested values.
CodecConstants ==
    { Name(tA), String(tA), String(tX), String(<<"#", "b", "6", "1">>),
      Bytes(<<>>), Bytes(<<"a">>), Number(1), Float64(15), Float64(10),
      List(<<>>), List(<<Name(tA), Number(1)>>),
      Pair(Name(tA), String(tX)),
      Map(<<Name(tA), Number(1), Name(tB), String(tX)>>),
      Map(<<Name(tB), String(tX), Name(tA), Number(1)>>),
      Struct(<<Name(tA), Number(1), Name(tB), String(tX)>>),
      Struct(<<Name(tB), String(tX), Name(tA), Number(1)>>),
      List(<<List(<<String(tX)>>), Pair(Number(1), Name(tB))>>),
      Pair(List(<<Name(tA)>>), Map(<<Name(tB), Number(1), Name(tA), Number(1)>>)) }

\* The predicates of the key runs: symbols with and without underscores.
KeySymbols ==
    { <<"p">>, <<"d", "_", "1">>, <<"m", "y", "_", "p">>, <<"_">>, <<"a", "_", "_">>,
      <<"_", "2">>, <<>> }
KeyPredicates == { PredicateSym(sym, arity) : sym \in KeySymbols, arity \in 0..MaxArity }

\* Two constants are encoded.
Encode(c, d) ==
    /\ conv = NoConv
    /\ conv' = Conv("encode", <<c, d>>, <<MarshalJSONTo(c), MarshalJSONTo(d)>>, <<>>)
    /\ UNCHANGED <<univ, store, last, adds, removes, pc, call, lifecycle>>

\* The encoded forms are decoded.
Decode ==
    /\ conv.op = "encode"
    /\ conv' = Conv("decode", conv.in, conv.mid,
                    <<UnmarshalJSONFrom(conv.mid[1]), UnmarshalJSONFrom(conv.mid[2])>>)
    /\ UNCHANGED <<univ, store, last, adds, removes, pc, call, lifecycle>>

\* A predicate is written as a key.
ToKey(p) ==
    /\ conv = NoConv
    /\ conv' = Conv("key", p, predicateToKey(p), <<>>)
    /\ UNCHANGED <<univ, store, last, adds, removes, pc, call, lifecycle>>

\* The key is parsed.
FromKey ==
    /\ conv.op = "key"
    /\ conv' = Conv("pred", conv.in, conv.mid, keyToPredicate(conv.mid))
    /\ UNCHANGED <<univ, store, last, adds, removes, pc, call, lifecycle>>

\* The result is taken.
Done ==
    /\ conv.op \in {"decode", "pred"}
    /\ conv' = NoConv
    /\ UNCHANGED <<univ, store, last, adds, removes, pc, call, lifecycle>>

NextCodec ==
    \/ \E c, d \in CodecConstants : Encode(c, d)
    \/ Decode
    \/ \E p \in KeyPredicates : ToKey(p)
    \/ FromKey
    \/ Done

SpecCodec == InitLife /\ [][NextCodec]_vars

-----------------------------------------------------------------------------
(* The RDF mapping: AtomsToRDF and RDFToAtoms.  An IRI is a text whose      *)
(* first element may be a whole namespace or RDF term.                      *)

\* Longest list of atoms converted.
MaxAtoms == 2

MangleNamespace == <<"http://mangle.datalog.org/">>
RDFType == <<"rdf:type">>
RDFStatement == <<"rdf:Statement">>
RDFSubject == <<"rdf:subject">>
RDFPredicate == <<"rdf:predicate">>
RDFObject == <<"rdf:object">>

IRI(value) == [kind |-> "iri", value |-> value, datatype |-> ""]
Literal(value, datatype) == [kind |-> "literal", value |-> value, datatype |-> datatype]
BlankNode(attribute) == [kind |-> "blank", value |-> attribute, datatype |-> ""]
NoNode == [kind |-> "nil", value |-> <<>>, datatype |-> ""]
Quad(subject, predicate, object) == [s |-> subject, p |-> predicate, o |-> object]

\* ld.NewIdentifierIssuer("_:b"): a counter and the identifiers issued for old
\* identifiers; the only old identifier the converter passes is "stmt".
NewIdentifierIssuer == [counter |-> 0, existing |-> <<>>]

\* issuer.GetId(oldId): the identifier already issued for a non-empty oldId,
\* else the next identifier, remembered for a non-empty oldId.
GetId(issuer, oldId) ==
    IF oldId # "" /\ issuer.existing # <<>>
    THEN [id |-> issuer.existing, issuer |-> issuer]
    ELSE LET id == <<"_:b">> \o Itoa(issuer.counter)
         IN  [id |-> id,
              issuer |-> [counter |-> issuer.counter + 1,
                          existing |-> IF oldId # "" THEN id ELSE issuer.existing]]

\* fmt.Sprintf("%g") of a float given in tenths, and strconv.ParseFloat of
\* the text.
FormatG(tenths) ==
    IF tenths % 10 = 0 THEN Itoa(tenths \div 10)
    ELSE Itoa(tenths \div 10) \o <<".">> \o Itoa(tenths % 10)

ParseFloat(s) ==
    LET dots == { i \in 1..Len(s) : s[i] = "." }
        dot == CHOOSE i \in dots : TRUE
        whole == Atoi(IF dots = {} THEN s ELSE SubSeq(s, 1, dot - 1))
        frac == Atoi(SubSeq(s, dot + 1, Len(s)))
    IN  IF dots = {} THEN [err |-> whole.err, n |-> 10 * whole.n]
        ELSE IF Cardinality(dots) > 1 \/ whole.err \/ frac.err \/ Len(s) - dot # 1
        THEN [err |-> TRUE, n |-> 0]
        ELSE [err |-> FALSE, n |-> 10 * whole.n + frac.n]

\* constantToRDFNode: a Name is an IRI, the other scalars typed literals; the
\* default branch writes the Symbol field as a string literal.
constantToRDFNode(c) ==
    CASE c.t = "Name" -> IRI(c.s)
      [] c.t = "String" -> Literal(c.s, "xsd:string")
      [] c.t = "Number" -> Literal(Itoa(c.n), "xsd:integer")
      [] c.t = "Float" -> Literal(FormatG(c.n), "xsd:double")
      [] OTHER -> Literal(c.s, "xsd:string")

\* reifyAtom: the statement node and its quads.
reifyAtom(atom, predicateIRI, issuer) ==
    LET g == GetId(issuer, "stmt")
        stmtNode == BlankNode(g.id)
    IN  [issuer |-> g.issuer,
         quads |->
           << Quad(stmtNode, IRI(RDFType), IRI(RDFStatement)),
              Quad(stmtNode, IRI(RDFSubject), constantToRDFNode(atom.args[1])),
              Quad(stmtNode, IRI(RDFPredicate), IRI(predicateIRI)),
              Quad(stmtNode, IRI(RDFObject), constantToRDFNode(atom.args[2])) >>
           \o [i \in 1..(Len(atom.args) - 2) |->
                 Quad(stmtNode,
                      IRI(MangleNamespace \o <<"a", "r", "g">> \o Itoa(i + 1)),
                      constantToRDFNode(atom.args[i + 2]))]]

\* atomToRDFQuads: the quads of one atom, by its arity.
atomToRDFQuads(atom, issuer) ==
    LET predicateIRI == MangleNamespace \o atom.pred.sym
        g == GetId(issuer, "")
    IN  CASE atom.pred.arity = 0 ->
               [issuer |-> g.issuer,
                quads |-> << Quad(BlankNode(g.id), IRI(RDFType), IRI(predicateIRI)) >>]
          [] atom.pred.arity = 1 ->
               [issuer |-> issuer,
                quads |-> << Quad(constantToRDFNode(atom.args[1]), IRI(RDFType),
                                  IRI(predicateIRI)) >>]
          [] atom.pred.arity = 2 ->
               [issuer |-> issuer,
                quads |-> << Quad(constantToRDFNode(atom.args[1]), IRI(predicateIRI),
                                  constantToRDFNode(atom.args[2])) >>]
          [] OTHER -> reifyAtom(atom, predicateIRI, issuer)

\* AtomsToRDF: the quads of the atoms, in order, in the default graph.
RECURSIVE atomsToQuads(_, _)
atomsToQuads(atoms, issuer) ==
    IF atoms = <<>> THEN <<>>
    ELSE LET r == atomToRDFQuads(Head(atoms), issuer)
         IN  r.quads \o atomsToQuads(Tail(atoms), r.issuer)

AtomsToRDF(atoms) == atomsToQuads(atoms, NewIdentifierIssuer)

nodeToString(node) ==
    CASE node.kind = "iri" -> node.value
      [] node.kind = "literal" -> node.value
      [] node.kind = "blank" -> <<"_:">> \o node.value
      [] OTHER -> <<>>

\* ast.Name: a name starts with "/".
astName(s) ==
    IF Len(s) > 0 /\ s[1] = "/" THEN Decoded(Name(s)) ELSE DecodeError

\* rdfNodeToConstant: an IRI is a Name, a literal the scalar of its datatype,
\* a blank node the name "_:" + its attribute.
rdfNodeToConstant(node) ==
    CASE node.kind = "iri" -> astName(node.value)
      [] node.kind = "literal" ->
            IF node.datatype = "xsd:integer"
            THEN LET num == Atoi(node.value)
                 IN  IF num.err THEN DecodeError ELSE Decoded(Number(num.n))
            ELSE IF node.datatype = "xsd:double"
            THEN LET flt == ParseFloat(node.value)
                 IN  IF flt.err THEN DecodeError ELSE Decoded(Float64(flt.n))
            ELSE Decoded(String(node.value))
      [] node.kind = "blank" -> astName(<<"_:">> \o node.value)
      [] OTHER -> DecodeError

\* strings.TrimPrefix(iri, MangleNamespace).
TrimNamespace(iri) ==
    IF Len(iri) > 0 /\ <<iri[1]>> = MangleNamespace THEN Tail(iri) ELSE iri

\* The N of a predicate MangleNamespace + "arg" + N (CutPrefix and Atoi).
argNum(predIRI) ==
    IF Len(predIRI) >= 4 /\ SubSeq(predIRI, 1, 4) = MangleNamespace \o <<"a", "r", "g">>
    THEN Atoi(SubSeq(predIRI, 5, Len(predIRI)))
    ELSE [err |-> TRUE, n |-> 0]

\* The object of the last quad of the group that satisfies want.
LastObject(quads, want(_)) ==
    LET hits == { i \in 1..Len(quads) : want(quads[i]) }
    IN  IF hits = {} THEN NoNode
        ELSE quads[CHOOSE i \in hits : \A k \in hits : k <= i].o

\* tryDetectReification on the quads of one subject: the loop keeps the last
\* rdf:subject, rdf:predicate, rdf:object and the last object of every argN.
tryDetectReification(quads) ==
    LET hasStatementType ==
            \E i \in 1..Len(quads) :
               /\ nodeToString(quads[i].p) = RDFType
               /\ nodeToString(quads[i].o) = RDFStatement
        core == {RDFType, RDFSubject, RDFPredicate, RDFObject}
        rdfSubject == LastObject(quads, LAMBDA q : nodeToString(q.p) = RDFSubject)
        rdfPredicate == LastObject(quads, LAMBDA q : nodeToString(q.p) = RDFPredicate)
        rdfObject == LastObject(quads, LAMBDA q : nodeToString(q.p) = RDFObject)
        isArg(q) == nodeToString(q.p) \notin core /\ ~argNum(nodeToString(q.p)).err
        nums == { argNum(nodeToString(quads[i].p)).n :
                    i \in { k \in 1..Len(quads) : isArg(quads[k]) } }
        additionalArgs(n) ==
            LastObject(quads, LAMBDA q : isArg(q) /\ argNum(nodeToString(q.p)).n = n)
        len == 2 + Cardinality(nums)
        nodes == [i \in 1..len |->
                    IF i = 1 THEN rdfSubject
                    ELSE IF i = 2 THEN rdfObject
                    ELSE IF (i - 1) \in nums THEN additionalArgs(i - 1) ELSE NoNode]
        args == [i \in 1..len |-> rdfNodeToConstant(nodes[i])]
    IN  IF \/ ~hasStatementType
           \/ rdfSubject = NoNode \/ rdfPredicate = NoNode \/ rdfObject = NoNode
           \/ \E i \in 1..len : args[i].err
        THEN [ok |-> FALSE, atom |-> NoAtom]
        ELSE [ok |-> TRUE,
              atom |-> [pred |-> PredicateSym(TrimNamespace(nodeToString(rdfPredicate)),
                                              len),
                        args |-> [i \in 1..len |-> args[i].c]]]

\* rdfTypeToAtom: arity 0 for a blank subject, else arity 1.
rdfTypeToAtom(quad) ==
    LET typeName == TrimNamespace(nodeToString(quad.o))
        subject == rdfNodeToConstant(quad.s)
    IN  IF quad.s.kind = "blank"
        THEN [err |-> FALSE, atom |-> [pred |-> PredicateSym(typeName, 0), args |-> <<>>]]
        ELSE IF subject.err THEN [err |-> TRUE, atom |-> NoAtom]
        ELSE [err |-> FALSE,
              atom |-> [pred |-> PredicateSym(typeName, 1), args |-> <<subject.c>>]]

\* simpleTripleToAtom: an arity 2 atom.
simpleTripleToAtom(quad) ==
    LET subject == rdfNodeToConstant(quad.s)
        object == rdfNodeToConstant(quad.o)
    IN  IF subject.err \/ object.err THEN [err |-> TRUE, atom |-> NoAtom]
        ELSE [err |-> FALSE,
              atom |-> [pred |-> PredicateSym(TrimNamespace(nodeToString(quad.p)), 2),
                        args |-> <<subject.c, object.c>>]]

\* The simple triples of one subject, one quad at a time.
RECURSIVE simpleTriples(_)
simpleTriples(quads) ==
    IF quads = <<>> THEN [err |-> FALSE, atoms |-> <<>>]
    ELSE LET quad == Head(quads)
             pred == nodeToString(quad.p)
             rest == simpleTriples(Tail(quads))
             one == IF pred = RDFType THEN rdfTypeToAtom(quad)
                    ELSE simpleTripleToAtom(quad)
         IN  IF \/ pred \in {RDFSubject, RDFPredicate, RDFObject}
                \/ (pred = RDFType /\ nodeToString(quad.o) = RDFStatement)
             THEN rest
             ELSE IF one.err \/ rest.err THEN [err |-> TRUE, atoms |-> <<>>]
             ELSE [err |-> FALSE, atoms |-> <<one.atom>> \o rest.atoms]

\* The loop of RDFToAtoms over the subjects, in the order subjects lists them.
RECURSIVE subjectLoop(_, _)
subjectLoop(quads, subjects) ==
    IF subjects = <<>> THEN [err |-> FALSE, atoms |-> <<>>]
    ELSE LET subQuads == SelectSeq(quads, LAMBDA q : nodeToString(q.s) = Head(subjects))
             reified == tryDetectReification(subQuads)
             simple == simpleTriples(subQuads)
             rest == subjectLoop(quads, Tail(subjects))
         IN  IF reified.ok
             THEN IF rest.err THEN rest
                  ELSE [err |-> FALSE, atoms |-> <<reified.atom>> \o rest.atoms]
             ELSE IF simple.err \/ rest.err THEN [err |-> TRUE, atoms |-> <<>>]
             ELSE [err |-> FALSE, atoms |-> simple.atoms \o rest.atoms]

\* RDFToAtoms: the quads grouped by subject; the groups are visited in the
\* order of a Go map, any order.
RDFToAtoms(quads, subjects) == subjectLoop(quads, subjects)

\* The atoms converted: arities 0 to 4 with Names, Strings, Numbers and Floats.
RDFAtoms ==
    { Atom(<<"r", "a", "i", "n", "y">>, <<>>),
      Atom(<<"p">>, <<Name(tA)>>), Atom(<<"p">>, <<String(tX)>>),
      Atom(<<"q">>, <<Name(tA), Name(tB)>>), Atom(<<"q">>, <<Name(tA), Number(1)>>),
      Atom(<<"q">>, <<Name(tB), Float64(15)>>), Atom(<<"q">>, <<Name(tA), String(tA)>>),
      Atom(<<"r">>, <<Name(tA), Name(tB), String(tX)>>),
      Atom(<<"r">>, <<Name(tA), Name(tC), Number(1)>>),
      Atom(<<"s">>, <<Name(tA), Name(tB), Float64(10), String(tX)>>) }

RDFLists == UNION { [1..n -> RDFAtoms] : n \in 0..MaxAtoms }

\* A list of atoms is converted to a dataset.
ToRDF(atoms) ==
    /\ conv = NoConv
    /\ conv' = Conv("rdf", atoms, AtomsToRDF(atoms), <<>>)
    /\ UNCHANGED <<univ, store, last, adds, removes, pc, call, lifecycle>>

\* The dataset is converted back.
ToAtoms ==
    /\ conv.op = "rdf"
    /\ \E subjects \in Orders({ nodeToString(conv.mid[i].s) : i \in 1..Len(conv.mid) }) :
          conv' = Conv("atoms", conv.in, conv.mid, RDFToAtoms(conv.mid, subjects))
    /\ UNCHANGED <<univ, store, last, adds, removes, pc, call, lifecycle>>

\* The result is taken.
TakeAtoms ==
    /\ conv.op = "atoms"
    /\ conv' = NoConv
    /\ UNCHANGED <<univ, store, last, adds, removes, pc, call, lifecycle>>

NextRDF ==
    \/ \E atoms \in RDFLists : ToRDF(atoms)
    \/ ToAtoms
    \/ TakeAtoms

SpecRDF == InitLife /\ [][NextRDF]_vars

-----------------------------------------------------------------------------
(* The JSON-LD mapping: ConstantJSONLD and AtomJSONLD.  A key of a JSON     *)
(* object is a text; "@context", "@id", "@type" and "arg" are one element   *)
(* each.                                                                    *)

\* The JSON token null, and the object {key: [a...]} that has the single key
\* `key` with an array as its value.
JNull == JSON("null", <<>>, 0, <<>>, "")
JKeyed(key, a) == JSON("keyed", <<>>, 0, a, key)

\* ast.Escape(s, true): a quote or a backslash gets a backslash in front.
RECURSIVE Escape(_)
Escape(s) ==
    IF s = <<>> THEN <<>>
    ELSE (IF Head(s) \in {"\"", "\\"} THEN <<"\\", Head(s)>> ELSE <<Head(s)>>)
            \o Escape(Tail(s))

\* ast.Unescape(s, true): a backslash takes the next character; a bare quote
\* or a backslash at the end is an error.
RECURSIVE Unescape(_)
Unescape(s) ==
    IF s = <<>> THEN [err |-> FALSE, s |-> <<>>]
    ELSE IF Head(s) = "\"" THEN [err |-> TRUE, s |-> <<>>]
    ELSE IF Head(s) = "\\"
    THEN IF Len(s) < 2 \/ s[2] \notin {"\"", "\\"} THEN [err |-> TRUE, s |-> <<>>]
         ELSE LET rest == Unescape(SubSeq(s, 3, Len(s)))
              IN  [err |-> rest.err, s |-> <<s[2]>> \o rest.s]
    ELSE LET rest == Unescape(Tail(s))
         IN  [err |-> rest.err, s |-> <<Head(s)>> \o rest.s]

\* ConstantJSONLD.MarshalJSONTo.
RECURSIVE ldMarshalJSONTo(_)
ldMarshalJSONTo(c) ==
    CASE c.t = "Name" -> JString(c.s)
      [] c.t = "String" -> JString(c.s)
      [] c.t = "Bytes" -> JString(<<"b", "\"">> \o Escape(c.s) \o <<"\"">>)
      [] c.t = "Number" -> JInt(c.n)
      [] c.t = "Float" -> JFloat(c.n)
      [] c.t = "List" -> JKeyed("@list", [i \in 1..Len(c.e) |-> ldMarshalJSONTo(c.e[i])])
      [] c.t = "Pair" -> JKeyed("fn:pair", <<ldMarshalJSONTo(c.e[1]), ldMarshalJSONTo(c.e[2])>>)
      [] c.t = "Map" -> JKeyed("fn:map", [i \in 1..Len(c.e) |-> ldMarshalJSONTo(c.e[i])])
      [] c.t = "Struct" -> JKeyed("fn:struct", [i \in 1..Len(c.e) |-> ldMarshalJSONTo(c.e[i])])

\* A variant of the JSON-LD decoder's construction without the argument
\* counts: a pair of the first and last argument, a map or struct of the
\* complete entries.
ldConstructUncounted(key, args) ==
    CASE key = "fn:pair" -> Decoded(Pair(args[1], args[Len(args)]))
      [] key = "fn:map" -> Decoded(Map(AstEntries(args)))
      [] key = "fn:struct" -> Decoded(Struct(AstEntries(args)))
\* The constant of a function object of the JSON-LD decoder: fn:pair takes two
\* arguments, fn:map and fn:struct an even number.
ldConstruct(key, args) ==
    CASE key = "fn:pair" ->
            IF Len(args) # 2 THEN DecodeError ELSE Decoded(Pair(args[1], args[2]))
      [] key = "fn:map" ->
            IF Len(args) % 2 # 0 THEN DecodeError ELSE Decoded(Map(AstEntries(args)))
      [] key = "fn:struct" ->
            IF Len(args) % 2 # 0 THEN DecodeError ELSE Decoded(Struct(AstEntries(args)))

\* ConstantJSONLD.UnmarshalJSONFrom: null, a bare array and an object with
\* another key than @list, fn:pair, fn:map, fn:struct are errors.
RECURSIVE ldUnmarshalJSONFrom(_)
ldUnmarshalJSONFrom(j) ==
    CASE j.k = "null" -> DecodeError
      [] j.k = "str" ->
            IF Len(j.s) > 0 /\ j.s[1] = "/" THEN Decoded(Name(j.s))
            ELSE IF Len(j.s) >= 3 /\ j.s[1] = "b" /\ j.s[2] = "\"" /\ j.s[Len(j.s)] = "\""
            THEN LET unescaped == Unescape(SubSeq(j.s, 3, Len(j.s) - 1))
                 IN  IF unescaped.err THEN DecodeError ELSE Decoded(Bytes(unescaped.s))
            ELSE Decoded(String(j.s))
      [] j.k = "num" ->
            IF j.n % 10 # 0 THEN Decoded(Float64(j.n)) ELSE Decoded(Number(j.n \div 10))
      [] j.k = "keyed" ->
            LET args == [i \in 1..Len(j.a) |-> ldUnmarshalJSONFrom(j.a[i])]
                constants == [i \in 1..Len(args) |-> args[i].c]
            IN  IF j.fn \notin {"@list", "fn:pair", "fn:map", "fn:struct"} THEN DecodeError
                ELSE IF \E i \in 1..Len(args) : args[i].err THEN DecodeError
                ELSE IF j.fn = "@list" THEN Decoded(List(constants))
                ELSE ldConstruct(j.fn, constants)
      [] j.k = "arr" -> DecodeError
      [] OTHER -> DecodeError

\* A member of a JSON object, and the keys the atom mapping writes.
Member(key, val) == [key |-> key, val |-> val]
ContextKey == <<"@context">>
IdKey == <<"@id">>
TypeKey == <<"@type">>
ArgKey(i) == <<"arg">> \o Itoa(i)

\* writeContext: the context object; the decoders skip it.
writeContext == JKeyed("@vocab", <<>>)

\* jsontext.Encoder: an object that repeats a name is an error.
NoDuplicateNames(members) ==
    \A i, k \in 1..Len(members) : members[i].key = members[k].key => i = k

\* AtomJSONLD.MarshalJSONTo: the members of the document, by arity.
ldAtomMarshalJSONTo(atom) ==
    LET symbol == JString(atom.pred.sym)
        arg(i) == ldMarshalJSONTo(atom.args[i])
        members ==
            <<Member(ContextKey, writeContext)>> \o
            (CASE atom.pred.arity = 0 -> <<Member(TypeKey, symbol)>>
               [] atom.pred.arity = 1 -> <<Member(IdKey, arg(1)), Member(TypeKey, symbol)>>
               [] atom.pred.arity = 2 ->
                     <<Member(IdKey, arg(1)), Member(atom.pred.sym, arg(2))>>
               [] OTHER ->
                     <<Member(TypeKey, symbol)>> \o
                     [i \in 1..Len(atom.args) |-> Member(ArgKey(i - 1), arg(i))])
    IN  IF atom.pred.arity \in {1, 2} /\ Len(atom.args) < atom.pred.arity
        THEN [err |-> TRUE, members |-> <<>>]
        ELSE IF \E i \in 1..Len(atom.args) : ~IsConstant(atom.args[i])
        THEN [err |-> TRUE, members |-> <<>>]
        ELSE IF ~NoDuplicateNames(members) THEN [err |-> TRUE, members |-> <<>>]
        ELSE [err |-> FALSE, members |-> members]

\* The @id or a property read by unmarshalAtomFrom; nil before it is read.
NoId == [set |-> FALSE, c |-> NoTerm]

\* reconstructAtom: the atom from @id, @type and the other properties (a set
\* of <<key, constant>> with one constant per key).
reconstructAtom(id, typeVal, properties) ==
    LET n == Cardinality(properties)
        has(key) == \E pr \in properties : pr[1] = key
        get(key) == (CHOOSE pr \in properties : pr[1] = key)[2]
        only == CHOOSE pr \in properties : TRUE
    IN  IF typeVal # <<>> /\ ~id.set /\ n = 0
        THEN [err |-> FALSE, atom |-> [pred |-> PredicateSym(typeVal, 0), args |-> <<>>]]
        ELSE IF typeVal # <<>> /\ id.set /\ n = 0
        THEN [err |-> FALSE, atom |-> [pred |-> PredicateSym(typeVal, 1), args |-> <<id.c>>]]
        ELSE IF id.set /\ typeVal = <<>> /\ n = 1
        THEN [err |-> FALSE,
              atom |-> [pred |-> PredicateSym(only[1], 2), args |-> <<id.c, only[2]>>]]
        ELSE IF typeVal # <<>> /\ n > 0
        THEN IF \E i \in 0..(n - 1) : ~has(ArgKey(i))
             THEN [err |-> TRUE, atom |-> NoAtom]
             ELSE [err |-> FALSE,
                   atom |-> [pred |-> PredicateSym(typeVal, n),
                             args |-> [i \in 1..n |-> get(ArgKey(i - 1))]]]
        ELSE [err |-> TRUE, atom |-> NoAtom]

\* unmarshalAtomFrom: the members are read in order; @context is skipped, @id
\* is a constant, @type must be a string, any other key is a property.
RECURSIVE unmarshalAtomFrom(_, _, _, _)
unmarshalAtomFrom(members, id, typeVal, properties) ==
    IF members = <<>> THEN reconstructAtom(id, typeVal, properties)
    ELSE LET m == Head(members)
             val == ldUnmarshalJSONFrom(m.val)
         IN  IF m.key = ContextKey
             THEN unmarshalAtomFrom(Tail(members), id, typeVal, properties)
             ELSE IF m.key = IdKey
             THEN IF val.err THEN [err |-> TRUE, atom |-> NoAtom]
                  ELSE unmarshalAtomFrom(Tail(members), [set |-> TRUE, c |-> val.c],
                                         typeVal, properties)
             ELSE IF m.key = TypeKey
             THEN IF m.val.k # "str" THEN [err |-> TRUE, atom |-> NoAtom]
                  ELSE unmarshalAtomFrom(Tail(members), id, m.val.s, properties)
             ELSE IF val.err THEN [err |-> TRUE, atom |-> NoAtom]
                  ELSE unmarshalAtomFrom(Tail(members), id, typeVal,
                          { pr \in properties : pr[1] # m.key } \cup {<<m.key, val.c>>})

\* AtomJSONLD.UnmarshalJSONFrom.
ldAtomUnmarshalJSONFrom(members) == unmarshalAtomFrom(members, NoId, <<>>, {})

\* The constants of the JSON-LD runs: every variant, texts that look like a
\* Name or like Bytes, bytes that need an escape, floats with and without a
\* fraction.
LDConstants ==
    { Name(tA), Name(tB), String(tX), String(tA), String(<<"b", "\"", "a", "\"">>),
      Bytes(<<"a">>), Bytes(<<"\"">>), Bytes(<<"\\", "a">>), Number(1), Float64(15),
      Float64(10), List(<<Name(tA), Number(1)>>), Pair(Name(tA), String(tX)),
      Map(<<Name(tA), Number(1)>>), Struct(<<Name(tA), String(tX)>>) }

\* The atoms of the JSON-LD runs, of arity 0 to 4.
LDAtoms ==
    { Atom(<<"p">>, <<>>), Atom(<<"r", "a", "i", "n", "y">>, <<>>) }
      \cup { Atom(<<"p">>, <<c>>) : c \in LDConstants }
      \cup { Atom(<<"q">>, <<Name(tA), c>>) : c \in LDConstants }
      \cup { Atom(<<"q">>, <<c, Name(tB)>>) : c \in LDConstants }
      \cup { Atom(<<"r">>, <<Name(tA), c, Number(1)>>) : c \in LDConstants }
      \cup { Atom(<<"s">>, <<c, Name(tA), Name(tB), c>>) : c \in LDConstants }

\* An atom is encoded as a JSON-LD document.
ToJSONLD(atom) ==
    /\ conv = NoConv
    /\ conv' = Conv("jsonld", atom, ldAtomMarshalJSONTo(atom), <<>>)
    /\ UNCHANGED <<univ, store, last, adds, removes, pc, call, lifecycle>>

\* The document is decoded.
FromJSONLD ==
    /\ conv.op = "jsonld"
    /\ ~conv.mid.err
    /\ conv' = Conv("ldatom", conv.in, conv.mid, ldAtomUnmarshalJSONFrom(conv.mid.members))
    /\ UNCHANGED <<univ, store, last, adds, removes, pc, call, lifecycle>>

\* The result is taken.
TakeLD ==
    /\ conv.op \in {"ldatom", "token", "atomobject"}
    /\ conv' = NoConv
    /\ UNCHANGED <<univ, store, last, adds, removes, pc, call, lifecycle>>
\* JSON values no constant is written as: null, an object with an unknown
\* key, fn:pair with one or three arguments, fn:map and fn:struct with an odd
\* number of arguments, in the form of the args column and in the JSON-LD form.
JBool(b) == JSON("bool", <<>>, IF b THEN 1 ELSE 0, <<>>, "")
MalformedTokens ==
    { JNull,
      JKeyed("fn:other", <<JInt(1), JInt(2)>>),
      JKeyed("@set", <<>>),
      JObject("fn:pair", 1, <<JInt(1)>>),
      JObject("fn:pair", 3, <<JInt(1), JInt(2), JString(tX)>>),
      JObject("fn:map", 1, <<JString(tA)>>),
      JObject("fn:map", 3, <<JString(tA), JInt(1), JString(tB)>>),
      JObject("fn:struct", 1, <<JString(tA)>>),
      JObject("fn:struct", 3, <<JString(tA), JInt(1), JString(tB)>>),
      JKeyed("fn:pair", <<JInt(1)>>),
      JKeyed("fn:pair", <<JInt(1), JInt(2), JString(tX)>>),
      JKeyed("fn:map", <<JString(tA)>>),
      JKeyed("fn:map", <<JString(tA), JInt(1), JString(tB)>>),
      JKeyed("fn:struct", <<JString(tA)>>),
      JKeyed("fn:struct", <<JString(tA), JInt(1), JString(tB)>>) }

\* The malformed input of a token for the decoder that reads its form.
IsNull(j) == j.k = "null"
HasUnknownKey(j) ==
    j.k = "keyed" /\ j.fn \notin {"@list", "fn:pair", "fn:map", "fn:struct"}
IsPairNotOfTwo(j) == j.k \in {"obj", "keyed"} /\ j.fn = "fn:pair" /\ Len(j.a) # 2
IsOddMapOrStruct(j) ==
    j.k \in {"obj", "keyed"} /\ j.fn \in {"fn:map", "fn:struct"} /\ Len(j.a) % 2 = 1

\* fn:map and fn:struct objects that repeat a key, with the same value and
\* with another one.
RepeatedKeyTokens ==
    LET twice == <<JString(tA), JInt(1), JString(tA), JInt(2)>>
        same == <<JString(tA), JInt(1), JString(tB), JInt(2), JString(tA), JInt(1)>>
    IN  { JObject("fn:map", 4, twice), JObject("fn:struct", 4, twice),
          JObject("fn:map", 6, same), JObject("fn:struct", 6, same),
          JKeyed("fn:map", twice), JKeyed("fn:struct", twice),
          JKeyed("fn:map", same), JKeyed("fn:struct", same) }

\* The tokens decoded: the encodings of the constants in both forms, and the
\* crafted ones.
Tokens ==
    { MarshalJSONTo(c) : c \in CodecConstants } \cup { ldMarshalJSONTo(c) : c \in LDConstants }
      \cup MalformedTokens \cup RepeatedKeyTokens

\* Atom objects whose symbol or arity token has another kind than the
\* encoder writes, and one as the encoder writes it.
AtomObjects ==
    { AtomObject(symbol, JInt(0), <<>>) :
        symbol \in {JInt(123), JNull, JBool(TRUE), JString(<<"p">>)} }
      \cup { AtomObject(JString(<<"p">>), arity, <<>>) :
               arity \in {JString(<<"2">>), JNull, JBool(FALSE)} }
      \cup { AtomObject(JString(<<"q">>), JInt(2), <<JString(tA), JInt(1)>>) }

\* A token is read by the decoder of the args column and by the JSON-LD one.
DecodeToken(j) ==
    /\ conv = NoConv
    /\ conv' = Conv("token", j, <<>>, <<UnmarshalJSONFrom(j), ldUnmarshalJSONFrom(j)>>)
    /\ UNCHANGED <<univ, store, last, adds, removes, pc, call, lifecycle>>

\* An atom object is read by the atom decoder.
DecodeAtomObject(el) ==
    /\ conv = NoConv
    /\ conv' = Conv("atomobject", el, <<>>, atomUnmarshalJSONFrom(el))
    /\ UNCHANGED <<univ, store, last, adds, removes, pc, call, lifecycle>>

NextLD ==
    \/ \E atom \in LDAtoms : ToJSONLD(atom)
    \/ FromJSONLD
    \/ \E j \in Tokens : DecodeToken(j)
    \/ \E el \in AtomObjects : DecodeAtomObject(el)
    \/ TakeLD

SpecLD == InitLife /\ [][NextLD]_vars
-----------------------------------------------------------------------------
(* Atoms whose argument count differs from the arity of their predicate:    *)
(* a caller may build one, and an imported array may hold the object of one. *)

MisdeclaredAtoms ==
    { [pred |-> PredicateSym(<<"p">>, 2), args |-> <<Name(tA)>>],
      [pred |-> PredicateSym(<<"q">>, 0), args |-> <<Float64(15)>>] }

\* The arrays imported: the feed, and the feed with the object of a
\* misdeclared atom in one place.
ArityStreams(feed) ==
    LET elems == [i \in 1..Len(feed) |-> atomMarshalJSONTo(feed[i]).j]
        bodies == {elems} \cup { [elems EXCEPT ![k] = atomMarshalJSONTo(m).j] :
                                   k \in 1..Len(elems), m \in MisdeclaredAtoms }
    IN  { [open |-> TRUE, elems |-> body, close |-> TRUE] : body \in bodies }

NextArity ==
    \/ \E a \in univ.atoms \cup MisdeclaredAtoms : CallAdd(1, a)
    \/ \E stream \in ArityStreams(univ.feed) : CallReadFrom(1, stream, 0)
    \/ CallMerge(2, 1)
    \/ Return

SpecArity == InitLife /\ [][NextArity]_vars
-----------------------------------------------------------------------------
(* Atoms of one predicate whose arguments are made of the same entries:     *)
(* in a Map and in a Struct, and split in several ways over two Maps.        *)

HashAtoms ==
    LET a1 == <<Name(tA), Number(1)>>
        bx == <<Name(tB), String(tX)>>
    IN  { Atom(<<"r">>, <<Map(a1 \o bx), Map(<<>>)>>),
          Atom(<<"r">>, <<Map(a1), Map(bx)>>),
          Atom(<<"r">>, <<Map(<<>>), Map(a1 \o bx)>>),
          Atom(<<"r">>, <<Struct(a1 \o bx), Map(<<>>)>>),
          Atom(<<"r">>, <<Map(bx), Map(a1)>>),
          Atom(<<"r">>, <<Name(tA), Name(tB)>>),
          Atom(<<"r">>, <<Name(tB), Name(tA)>>),
          Atom(<<"r">>, <<Name(tA), String(tA)>>) }

NextHash ==
    \/ \E a \in HashAtoms : CallAdd(1, a)
    \/ \E a \in HashAtoms : CallContains(1, a)
    \/ \E a \in HashAtoms : CallRemove(1, a)
    \/ Return

SpecHash == InitLife /\ [][NextHash]_vars
-----------------------------------------------------------------------------
(* The connection pool: calls of several callers on store 1, each statement *)
(* and each query taking one of the pool's connections.                    *)

\* db.SetMaxOpenConns: the connections the pool opens at most.  The code sets
\* 10; the model scales it with the number of callers.
MaxOpenConns == 2

\* The calls that run one prepared statement.
StatementOps == {"add", "contains", "remove"}

\* The atoms the callers and the callbacks pass: those a pattern can match.
PoolAtoms == { a \in univ.atoms : \E pattern \in univ.patterns : pattern.pred = a.pred }

\* A caller's call: op and atom of the call, for a get the result rows not yet
\* read (pending), the atom passed to the callback (yielded) and the call the
\* callback makes (nested, natom), and the result of the last statement (ok).
PoolCall(op, atom, pending, yielded, nested, natom, ok) ==
    [op |-> op, atom |-> atom, pending |-> pending, yielded |-> yielded,
     nested |-> nested, natom |-> natom, ok |-> ok]

NoPoolCall == PoolCall("none", NoAtom, <<>>, NoAtom, "none", NoAtom, FALSE)

InitPool ==
    /\ univ \in Universes
    /\ univ.atoms = ScalarAtoms
    /\ store = [s \in Stores |-> {}]
    /\ last = NoCall
    /\ adds = [s \in Stores |-> 0]
    /\ removes = [s \in Stores |-> 0]
    /\ pc = Idle
    /\ call = [p \in Procs |-> NoPoolCall]
    /\ conv = NoConv
    /\ inMemoryDBCounter = 0
    /\ handles = <<>>
    /\ objs = <<>>

\* The connections in use: one per get from its db.Query to its rows.Close,
\* the time of its callbacks included.  A statement takes and frees its
\* connection within its Exec or QueryRow.
connsInUse == Cardinality({ p \in Procs : pc[p] \in {"rows", "yield", "cbWait", "cbDone"} })

\* Stmt.Exec / Stmt.QueryRow of add, contains and remove on the table; fail is
\* an error of the driver, on which the call logs and returns false.
execStatement(rows, op, atom, fail) ==
    IF fail THEN [rows |-> rows, ok |-> FALSE]
    ELSE IF op = "add" THEN Add(rows, atom)
    ELSE IF op = "remove" THEN Remove(rows, atom)
    ELSE [rows |-> rows, ok |-> Contains(rows, atom)]

\* Add, Contains or Remove is called: the atom is encoded, and the statement
\* then asks the pool for a connection.
StatementBegin(p, op, a) ==
    /\ pc[p] = "idle"
    /\ pc' = [pc EXCEPT ![p] = IF atomToRowForInsert(a).err THEN "idle" ELSE "wait"]
    /\ call' = [call EXCEPT ![p] = PoolCall(op, a, <<>>, NoAtom, "none", NoAtom, FALSE)]
    /\ UNCHANGED <<lifecycle, univ, conv, store, last, adds, removes>>

\* The statement gets a connection, runs, frees the connection, and the call
\* returns.
StatementExec(p) ==
    LET res == execStatement(store[1], call[p].op, call[p].atom, FALSE)
    IN  /\ pc[p] = "wait"
        /\ connsInUse < MaxOpenConns
        /\ store' = [store EXCEPT ![1] = res.rows]
        /\ pc' = [pc EXCEPT ![p] = "idle"]
        /\ call' = [call EXCEPT ![p].ok = res.ok]
        /\ UNCHANGED <<lifecycle, univ, conv, last, adds, removes>>

\* GetFacts is called: the query is built and db.Query asks for a connection.
GetBegin(p, pattern) ==
    /\ pc[p] = "idle"
    /\ pc' = [pc EXCEPT ![p] = "getWait"]
    /\ call' = [call EXCEPT ![p] = PoolCall("get", pattern, <<>>, NoAtom, "none", NoAtom, FALSE)]
    /\ UNCHANGED <<lifecycle, univ, conv, store, last, adds, removes>>

\* db.Query gets a connection and returns the rows, which keep the connection
\* until rows.Close.  The result is taken as the rows matching now, in some
\* order.
Query(p) ==
    /\ pc[p] = "getWait"
    /\ connsInUse < MaxOpenConns
    /\ \E rowSeq \in Orders(getFactsQuery(store[1], call[p].atom)) :
          call' = [call EXCEPT ![p].pending = rowSeq]
    /\ pc' = [pc EXCEPT ![p] = "rows"]
    /\ UNCHANGED <<lifecycle, univ, conv, store, last, adds, removes>>

\* rows.Next: after the last row GetFacts returns and the deferred rows.Close
\* frees the connection; else the row is decoded and passed to the callback.
RowsNext(p) ==
    /\ pc[p] = "rows"
    /\ IF call[p].pending = <<>>
       THEN /\ pc' = [pc EXCEPT ![p] = "idle"]
            /\ call' = [call EXCEPT ![p] = NoPoolCall]
       ELSE LET reconstructed == unmarshalAtom(call[p].atom.pred, Head(call[p].pending).args)
            IN  IF reconstructed.err
                THEN /\ pc' = [pc EXCEPT ![p] = "idle"]
                     /\ call' = [call EXCEPT ![p] = NoPoolCall]
                ELSE /\ pc' = [pc EXCEPT ![p] = "yield"]
                     /\ call' = [call EXCEPT ![p].pending = Tail(call[p].pending),
                                             ![p].yielded = reconstructed.atom]
    /\ UNCHANGED <<lifecycle, univ, conv, store, last, adds, removes>>

\* The callback calls Add, Contains or Remove of the same store: the statement
\* asks the pool for a connection while the get keeps its own.
CallbackCalls(p, op, a) ==
    /\ pc[p] = "yield"
    /\ pc' = [pc EXCEPT ![p] = IF atomToRowForInsert(a).err THEN "cbDone" ELSE "cbWait"]
    /\ call' = [call EXCEPT ![p].nested = op, ![p].natom = a]
    /\ UNCHANGED <<lifecycle, univ, conv, store, last, adds, removes>>

\* The callback's statement gets a connection, runs and frees it.  The driver
\* may refuse a statement on a table a cursor is reading.
CallbackExec(p, fail) ==
    LET res == execStatement(store[1], call[p].nested, call[p].natom, fail)
    IN  /\ pc[p] = "cbWait"
        /\ connsInUse < MaxOpenConns
        /\ store' = [store EXCEPT ![1] = res.rows]
        /\ pc' = [pc EXCEPT ![p] = "cbDone"]
        /\ call' = [call EXCEPT ![p].ok = res.ok]
        /\ UNCHANGED <<lifecycle, univ, conv, last, adds, removes>>

\* The callback returns: on nil the row loop goes on, on an error GetFacts
\* returns it and the deferred rows.Close frees the connection.
CallbackReturns(p, yerr) ==
    /\ pc[p] \in {"yield", "cbDone"}
    /\ IF yerr = NoError
       THEN /\ pc' = [pc EXCEPT ![p] = "rows"]
            /\ call' = [call EXCEPT ![p].yielded = NoAtom, ![p].nested = "none",
                                    ![p].natom = NoAtom, ![p].ok = FALSE]
       ELSE /\ pc' = [pc EXCEPT ![p] = "idle"]
            /\ call' = [call EXCEPT ![p] = NoPoolCall]
    /\ UNCHANGED <<lifecycle, univ, conv, store, last, adds, removes>>

NextPool ==
    \/ \E p \in Procs : \E op \in StatementOps : \E a \in PoolAtoms : StatementBegin(p, op, a)
    \/ \E p \in Procs : StatementExec(p)
    \/ \E p \in Procs : \E pattern \in univ.patterns : GetBegin(p, pattern)
    \/ \E p \in Procs : Query(p)
    \/ \E p \in Procs : RowsNext(p)
    \/ \E p \in Procs : \E op \in StatementOps : \E a \in PoolAtoms : CallbackCalls(p, op, a)
    \/ \E p \in Procs : \E fail \in BOOLEAN : CallbackExec(p, fail)
    \/ \E p \in Procs : \E yerr \in {NoError} \cup YieldErrors : CallbackReturns(p, yerr)

\* Every goroutine that can run does run, a callback ends after at most one
\* call of the store, and the pool passes a freed connection to every waiting
\* request in turn.  Callers need not call.
FairPool ==
    \A p \in Procs :
        /\ WF_vars(RowsNext(p))
        /\ WF_vars(\/ \E op \in StatementOps : \E a \in PoolAtoms : CallbackCalls(p, op, a)
                   \/ \E yerr \in {NoError} \cup YieldErrors : CallbackReturns(p, yerr))
        /\ SF_vars(StatementExec(p))
        /\ SF_vars(Query(p))
        /\ SF_vars(\E fail \in BOOLEAN : CallbackExec(p, fail))

SpecPool == InitPool /\ [][NextPool]_vars /\ FairPool
-----------------------------------------------------------------------------
(* Properties.                                                             *)

\* The atom hash of a ground atom.
HashOf(a) == atomToRowForInsert(a).atomHash

\* The stored facts of a table: the atoms whose insertion created its rows.
Facts(rows) == { r.fact : r \in rows }

\* A fact equal to the atom a is stored.
Holds(rows, a) == \E r \in rows : AtomEquals(r.fact, a)

\* The fact f matches the pattern: same predicate symbol and arity, and an equal
\* argument at every position the pattern binds.
Matches(f, pattern) ==
    /\ f.pred = pattern.pred
    /\ Len(f.args) = Len(pattern.args)
    /\ \A i \in 1..Len(pattern.args) :
          IsConstant(pattern.args[i]) => ConstEquals(f.args[i], pattern.args[i])

\* The step is a call of op.
Called(op) == last.op = "none" /\ last'.op = op

\* C1: for every ground atom a and every store state, add(a) returns true if
\* and only if no fact equal to a was stored immediately before the call; after
\* add(a) returns, contains(a) is true and an immediate second add(a) returns
\* false.
C1_AddTrueIffNoEqualFact ==
    [][ (Called("add") /\ IsGround(last'.atom)) =>
            LET s == last'.s
                a == last'.atom
            IN  /\ (last'.ok <=> ~Holds(store[s], a))
                /\ Contains(store'[s], a)
                /\ ~Add(store'[s], a).ok ]_vars

\* C2: for every ground atom a, remove(a) returns true if and only if a row for
\* a (a row with a's atom hash) was deleted, and it deletes no other row; after
\* remove(a), contains(a) is false and a second remove(a) returns false; after
\* add(a), remove(a) returns true, makes contains(a) false and a second
\* remove(a) returns false.
C2_RemoveTrueIffRowDeleted ==
    [][ /\ (Called("remove") /\ IsGround(last'.atom)) =>
              LET s == last'.s
                  a == last'.atom
                  deleted == store[s] \ store'[s]
              IN  /\ store'[s] \subseteq store[s]
                  /\ \A r \in deleted : r.atom_hash = HashOf(a)
                  /\ (last'.ok <=> deleted # {})
                  /\ ~Contains(store'[s], a)
                  /\ ~Remove(store'[s], a).ok
        /\ (Called("add") /\ IsGround(last'.atom)) =>
              LET s == last'.s
                  a == last'.atom
                  removed == Remove(store'[s], a)
              IN  /\ removed.ok
                  /\ ~Contains(removed.rows, a)
                  /\ ~Remove(removed.rows, a).ok ]_vars

\* A remove of a stored ground atom has returned true and left other rows.
C2_Witness ==
    /\ last.op = "remove"
    /\ last.ok
    /\ IsGround(last.atom)
    /\ store[last.s] # {}

\* C3: after any sequence of add and remove calls on a store that started
\* empty, estimate_fact_count() equals the number of add calls that returned
\* true minus the number of remove calls that returned true.
C3_CountIsAddsMinusRemoves ==
    /\ \A s \in Stores : EstimateFactCount(store[s]) = adds[s] - removes[s]
    /\ last.op = "count" => last.n = adds[last.s] - removes[last.s]

\* The count was taken after two successful adds and one successful remove.
C3_Witness ==
    /\ last.op = "count"
    /\ last.n = 1
    /\ adds[1] = 2
    /\ removes[1] = 1

\* C4: when all callers have called add(a) for the same ground atom a on a
\* store that did not contain a, and all calls have returned, exactly one call
\* returned true, all others false, and the store holds a single row for a.
C4_OneWinner ==
    LET a == call[1].atom
    IN  ( /\ \A p \in Procs : pc[p] = "done"
          /\ IsGround(a)
          /\ \A p \in Procs : AtomEquals(call[p].atom, a) )
        => /\ Cardinality({ p \in Procs : call[p].ok }) = 1
           /\ Cardinality({ r \in store[1] : r.atom_hash = HashOf(a) }) = 1
           /\ Cardinality({ r \in store[1] : AtomEquals(r.fact, a) }) = 1

\* All callers added the same ground atom in overlapping calls, and all returned.
C4_Witness ==
    /\ \A p \in Procs : pc[p] = "done" /\ call[p].overlapped
    /\ IsGround(call[1].atom)
    /\ \A p \in Procs : AtomEquals(call[p].atom, call[1].atom)
    /\ \E p \in Procs : call[p].ok

C6_NonGroundRejected ==
    [][ (/\ last.op = "none"
         /\ last'.op \in {"add", "contains", "remove"}
         /\ ~IsGround(last'.atom))
        => (~last'.ok /\ store' = store) ]_vars

\* A non-ground atom was passed to add on a store that holds facts.
C6_Witness ==
    /\ last.op = "add"
    /\ ~IsGround(last.atom)
    /\ ~last.ok
    /\ store[last.s] # {}

\* C7: get(pattern, yield), with a callback that returns no error, passes to
\* yield exactly the stored facts that have the pattern's predicate and an
\* equal argument at every bound position: each such fact once, no other fact.
C7_GetYieldsExactlyMatches ==
    (last.op = "get" /\ last.failAt = 0) =>
        LET want == { f \in Facts(store[last.s]) : Matches(f, last.atom) }
        IN  /\ \A f \in want :
                  Cardinality({ i \in 1..Len(last.out) : AtomEquals(last.out[i], f) }) = 1
            /\ \A i \in 1..Len(last.out) : \E f \in want : AtomEquals(last.out[i], f)

\* C8: when a call of the callback returns an error, get has invoked the
\* callback for no further row and returns that same error.
C8_YieldErrorStopsGet ==
    (last.op = "get" /\ last.failAt > 0) =>
        /\ Len(last.out) = last.failAt
        /\ last.err = last.yerr

\* The first call of the callback returned an error although the query selected
\* at least two rows.
C8_Witness ==
    /\ last.op = "get"
    /\ last.failAt = 1
    /\ last.err = "stop"
    /\ Cardinality(getFactsQuery(store[last.s], last.atom)) >= 2

\* C9: after self.merge(other) completes without a backend error, the facts of
\* self are the union of the facts self held before and the facts of other,
\* facts present in both are stored once, and other is unchanged.
C9_MergeIsUnion ==
    [][ (Called("merge") /\ last'.ok) =>
            LET s == last'.s
                o == last'.o
                before == Facts(store[s]) \cup Facts(store[o])
                after == Facts(store'[s])
            IN  /\ \A f \in before : \E g \in after : AtomEquals(f, g)
                /\ \A g \in after : \E f \in before : AtomEquals(f, g)
                /\ \A r1, r2 \in store'[s] : AtomEquals(r1.fact, r2.fact) => r1 = r2
                /\ (o # s => store'[o] = store[o]) ]_vars

\* C10: every batch of the batch insert path is atomic: after the call returns,
\* of the rows of a batch that were not in the table before, either all are in
\* the table or none is; and none of a batch whose insert failed.
C10_BatchAtomic ==
    [][ Called("merge") =>
            LET s == last'.s
                had == { r.atom_hash : r \in store[s] }
                has == { r.atom_hash : r \in store'[s] }
                new(k) == { last'.batches[k][i].atom_hash :
                              i \in 1..Len(last'.batches[k]) } \ had
            IN  /\ \A k \in 1..Len(last'.batches) :
                      new(k) \subseteq has \/ new(k) \cap has = {}
                /\ last'.fault \in 1..Len(last'.batches)
                      => new(last'.fault) \cap has = {} ]_vars

\* The insert of a batch of at least two rows, none of them in the table, failed.
C10_Witness ==
    /\ last.op = "merge"
    /\ ~last.ok
    /\ last.fault \in 1..Len(last.batches)
    /\ Len(last.batches[last.fault]) >= 2
    /\ \A i \in 1..Len(last.batches[last.fault]) :
          \A r \in store[last.s] : r.atom_hash # last.batches[last.fault][i].atom_hash
    /\ Cardinality({ last.batches[last.fault][i].atom_hash :
                       i \in 1..Len(last.batches[last.fault]) }) >= 2

\* C11 (as stated): merge is atomic per batch and not as a whole, so a merge
\* whose insert fails at batch k > 1 ends with the batches before k persisted
\* in self and the others not.
C11_EarlierBatchesPersist ==
    [][ (Called("merge") /\ last'.fault \in 2..Len(last'.batches)) =>
            \A k \in 1..(last'.fault - 1) :
              \A i \in 1..Len(last'.batches[k]) :
                \E r \in store'[last'.s] :
                   r.atom_hash = last'.batches[k][i].atom_hash ]_vars

\* C11 (amended): the batch insert of a merge is atomic as a whole: all batches
\* run in one transaction committed at the end, so after merge returns either
\* every row of every batch is in self, or self is exactly as it was before.
C11_MergeAtomicAsAWhole ==
    [][ Called("merge") =>
            LET s == last'.s
                has == { r.atom_hash : r \in store'[s] }
                all == UNION { { last'.batches[k][i].atom_hash :
                                   i \in 1..Len(last'.batches[k]) } :
                               k \in 1..Len(last'.batches) }
            IN  /\ all \subseteq has \/ store'[s] = store[s]
                /\ ~last'.ok => store'[s] = store[s] ]_vars

\* A merge of several batches failed after its first batch, whose rows were not
\* all in self.
C11_Witness ==
    /\ last.op = "merge"
    /\ ~last.ok
    /\ last.fault \in 2..Len(last.batches)
    /\ \E i \in 1..Len(last.batches[1]) :
          \A r \in store[last.s] : r.atom_hash # last.batches[1][i].atom_hash

\* C12: importing the output of export(S) into a fresh empty store yields a
\* store holding exactly the atoms of S: contains agrees on every atom and the
\* fact counts are equal.
C12_ImportOfExportSameAtoms ==
    [][ ( /\ Called("import")
          /\ last'.io.src # 0
          /\ last'.io.src # last'.s
          /\ store[last'.s] = {}
          /\ last'.io.failFlush = 0 ) =>
            /\ last'.err = NoError
            /\ \A a \in univ.atoms :
                  Contains(store'[last'.s], a) = Contains(store[last'.io.src], a)
            /\ EstimateFactCount(store'[last'.s])
                  = EstimateFactCount(store[last'.io.src]) ]_vars

\* The rows the elements before position k of an array insert.
C13_RowsBefore(elems, k) ==
    { LET a == atomUnmarshalJSONFrom(elems[i]).atom
          r == atomToRowForInsert(a)
      IN  Row(predicateToKey(a.pred), r.atomHash, r.args, a) : i \in 1..(k - 1) }

C14_CloseFreesOwnedHandleOnly ==
    [][ Called("close") =>
            LET o == objs[last'.s]
            IN  /\ ~objs'[last'.s].stmts
                /\ o.ownsDB => ~handles'[o.db].open
                /\ ~o.ownsDB => handles'[o.db].open = handles[o.db].open
                /\ store' = store ]_vars

\* C15: any two stores constructed with ":memory:", also by concurrent
\* constructors, have distinct databases, and an Add on one of them changes
\* the table of no other: the added fact does not become visible there.
C15_MemoryStoresIsolated ==
    [][ LET memory == { o \in 1..Len(objs') : objs'[o].ownsDB }
            pathOf(o) == handles'[objs'[o].db].path
        IN  /\ \A o1, o2 \in memory : o1 # o2 => pathOf(o1) # pathOf(o2)
            /\ Called("add") =>
                  \A o2 \in memory \ {last'.s} :
                     /\ store'[pathOf(o2)] = store[pathOf(o2)]
                     /\ Contains(store'[pathOf(o2)], last'.atom)
                           = Contains(store[pathOf(o2)], last'.atom) ]_vars

\* Two ":memory:" stores built by overlapping constructors, the one that took
\* the later id finishing first; a fact was added to one and the other is
\* empty.
C15_Witness ==
    /\ Len(objs) >= 2
    /\ objs[1].ownsDB /\ objs[2].ownsDB
    /\ objs[1].concurrent
    /\ handles[objs[1].db].path = 2
    /\ handles[objs[2].db].path = 1
    /\ last.op = "add" /\ last.ok /\ last.s = 1
    /\ store[2] # {}
    /\ store[1] = {}

\* Structural equality of constants of any depth: pointwise for lists and
\* pairs, equality of the entry sets for maps and structs.
RECURSIVE DeepEquals(_, _)
DeepEquals(c, d) ==
    /\ c.t = d.t
    /\ IF c.t \in {"Map", "Struct"}
       THEN /\ Len(c.e) = Len(d.e)
            /\ \A i \in 1..(Len(c.e) \div 2) : \E k \in 1..(Len(d.e) \div 2) :
                  /\ DeepEquals(c.e[2 * i - 1], d.e[2 * k - 1])
                  /\ DeepEquals(c.e[2 * i], d.e[2 * k])
            /\ \A k \in 1..(Len(d.e) \div 2) : \E i \in 1..(Len(c.e) \div 2) :
                  /\ DeepEquals(c.e[2 * i - 1], d.e[2 * k - 1])
                  /\ DeepEquals(c.e[2 * i], d.e[2 * k])
       ELSE IF c.t \in {"List", "Pair"}
       THEN /\ Len(c.e) = Len(d.e)
            /\ \A i \in 1..Len(c.e) : DeepEquals(c.e[i], d.e[i])
       ELSE c = d

\* C16: decoding the storage encoding of a constant of any variant yields a
\* constant of the same variant, structurally equal to it.
C16_DecodeOfEncodeIsEqual ==
    conv.op = "decode" =>
        \A i \in 1..2 :
           /\ ~conv.out[i].err
           /\ conv.out[i].c.t = conv.in[i].t
           /\ DeepEquals(conv.out[i].c, conv.in[i])

\* C17: the storage encoding is canonical: two structurally equal constants
\* have the same encoding, also when the entries of a Map or Struct are listed
\* in different orders.
C17_EqualConstantsSameEncoding ==
    (conv.op = "encode" /\ DeepEquals(conv.in[1], conv.in[2])) =>
        conv.mid[1] = conv.mid[2]

\* C19: parsing the key written for a predicate of arity >= 0 gives back the
\* same symbol and the same arity, also when the symbol holds underscores:
\* the key is split at its last underscore.
C19_KeyRoundTrip ==
    conv.op = "pred" =>
        /\ ~conv.out.err
        /\ conv.out.pred.sym = conv.in.sym
        /\ conv.out.pred.arity = conv.in.arity
        /\ conv.out.pred.sym = SubSeq(conv.mid, 1, LastUnderscore(conv.mid) - 1)

\* The key of a predicate whose symbol holds an underscore followed by a digit,
\* with an arity of two digits, was parsed.
C19_Witness ==
    /\ conv.op = "pred"
    /\ conv.in = PredicateSym(<<"d", "_", "1">>, 10)
    /\ conv.mid = <<"d", "_", "1", "_", "1", "0">>

\* C18: ListPredicates returns exactly the predicates that have at least one
\* stored fact, each exactly once; after the Remove of the last fact of a
\* predicate no listing of the store holds that predicate.
C18_ListsExactlyStoredPredicates ==
    [][ /\ Called("list") =>
              LET out == last'.out
              IN  /\ { out[i] : i \in 1..Len(out) }
                       = { r.fact.pred : r \in store[last'.s] }
                  /\ \A i, k \in 1..Len(out) : i # k => out[i] # out[k]
        /\ ( /\ Called("remove")
             /\ last'.ok
             /\ \A r \in store'[last'.s] : r.fact.pred # last'.atom.pred ) =>
              \A out \in listings(store'[last'.s]) :
                 \A i \in 1..Len(out) : out[i] # last'.atom.pred ]_vars

\* A listing of a store with several facts of one predicate and a fact of
\* another was returned.
C18_Witness ==
    /\ last.op = "list"
    /\ Len(last.out) = 2
    /\ Cardinality(store[last.s]) = 3

\* The last fact of a predicate was removed from a store that holds facts of
\* another predicate.
C18_WitnessRemoved ==
    /\ last.op = "remove"
    /\ last.ok
    /\ store[last.s] # {}
    /\ \A r \in store[last.s] : r.fact.pred # last.atom.pred

\* The number of elements of a list that are structurally equal to the atom.
C20_Count(list, a) == Cardinality({ i \in 1..Len(list) : AtomEquals(list[i], a) })

\* C20: RDFToAtoms(AtomsToRDF(atoms)) returns the atoms of the list, each
\* structurally equal to its original as often as the list holds it, and no
\* other atom.
C20_RDFRoundTrip ==
    conv.op = "atoms" =>
        /\ ~conv.out.err
        /\ Len(conv.out.atoms) = Len(conv.in)
        /\ \A i \in 1..Len(conv.in) :
              C20_Count(conv.out.atoms, conv.in[i]) = C20_Count(conv.in, conv.in[i])

\* C21: for every ground atom of arity 0, 1, 2 or 3 and more, decoding the
\* JSON-LD document of the atom yields an atom with the same predicate symbol,
\* the same arity and structurally equal arguments in the same positions.
C21_JSONLDRoundTrip ==
    conv.op = "ldatom" =>
        /\ ~conv.out.err
        /\ conv.out.atom.pred = conv.in.pred
        /\ Len(conv.out.atom.args) = Len(conv.in.args)
        /\ \A i \in 1..Len(conv.in.args) :
              DeepEquals(conv.out.atom.args[i], conv.in.args[i])

\* C22: decoding a constant returns an error and produces no value for JSON
\* null, for an object with an unknown key, for fn:pair with other than two
\* elements, and for fn:map or fn:struct with an odd number of elements; in the
\* decoder of the args column and in the JSON-LD decoder.
C22_MalformedConstantsRejected ==
    (/\ conv.op = "token"
     /\ \/ IsNull(conv.in)
        \/ HasUnknownKey(conv.in)
        \/ IsPairNotOfTwo(conv.in)
        \/ IsOddMapOrStruct(conv.in))
    => \A i \in 1..2 : conv.out[i].err /\ conv.out[i].c = NoTerm

\* An odd fn:struct in the JSON-LD form was decoded, and a fn:pair of three in
\* the form of the args column.
C22_Witness ==
    /\ conv.op = "token"
    /\ \/ conv.in.k = "keyed" /\ conv.in.fn = "fn:struct" /\ Len(conv.in.a) = 3
       \/ conv.in.k = "obj" /\ conv.in.fn = "fn:pair" /\ Len(conv.in.a) = 3
    /\ conv.out[1].err /\ conv.out[2].err

\* C23: decoding an atom object whose predicate symbol is not a JSON string (a
\* number, null or a boolean) or whose arity is not a JSON number (a string,
\* null or a boolean) returns an error instead of an atom.
C23_MistypedPredicateRejected ==
    (/\ conv.op = "atomobject"
     /\ conv.in.fn # ""
     /\ conv.in.a[1].k # "str" \/ conv.in.a[2].k # "num")
    => conv.out.err /\ ~conv.out.panic

\* The subject of the first quad of the i-th atom of a converted list: an atom
\* of arity below 3 has one quad, a reified atom its arity plus two.
RECURSIVE C24_QuadsBefore(_, _)
C24_QuadsBefore(atoms, i) ==
    IF i = 1 THEN 0
    ELSE C24_QuadsBefore(atoms, i - 1)
           + (IF atoms[i - 1].pred.arity < 3 THEN 1 ELSE atoms[i - 1].pred.arity + 2)

C24_SubjectOf(quads, atoms, i) == quads[C24_QuadsBefore(atoms, i) + 1].s

\* C24: within one AtomsToRDF call, every atom of arity 0 and every atom of
\* arity 3 or more gets its own fresh blank node as subject, different from the
\* blank node of every other such atom of the dataset.
C24_FreshBlankNodePerAtom ==
    conv.op = "rdf" =>
        \A i, k \in 1..Len(conv.in) :
           (/\ i # k
            /\ conv.in[i].pred.arity \in {0} \cup (3..MaxArity)
            /\ conv.in[k].pred.arity \in {0} \cup (3..MaxArity))
           => /\ C24_SubjectOf(conv.mid, conv.in, i).kind = "blank"
              /\ C24_SubjectOf(conv.mid, conv.in, i) # C24_SubjectOf(conv.mid, conv.in, k)

\* No Map or Struct inside the constant holds two structurally equal keys.
RECURSIVE C25_KeysUnique(_)
C25_KeysUnique(c) ==
    /\ c.t \in {"Map", "Struct"} =>
          \A i, k \in 1..(Len(c.e) \div 2) :
             DeepEquals(c.e[2 * i - 1], c.e[2 * k - 1]) => i = k
    /\ \A i \in 1..Len(c.e) : C25_KeysUnique(c.e[i])

\* C25: every Map or Struct constant produced by a decoder has keys that are
\* unique by structural equality, also when the input repeats a key inside
\* fn:map or fn:struct.
C25_DecodedKeysUnique ==
    conv.op = "token" =>
        \A i \in 1..2 : ~conv.out[i].err => C25_KeysUnique(conv.out[i].c)

\* C26: after any sequence of add, merge and import operations, every stored
\* fact has exactly as many arguments as the arity recorded in its predicate
\* key; an atom whose argument count differs from its declared arity is never
\* stored.
C26_StoredArityMatchesKey ==
    \A s \in Stores : \A r \in store[s] :
       /\ ~keyToPredicate(r.predicate).err
       /\ Len(r.args) = keyToPredicate(r.predicate).pred.arity
       /\ Len(r.fact.args) = r.fact.pred.arity

\* C27: the per-value hash and the pairing function being free of collisions,
\* two ground atoms of the same predicate that are not structurally equal get
\* different atom hashes and are stored as two facts; also an atom with a Map
\* argument and one with a Struct argument of the same entries, and atoms that
\* split the same entries differently over adjacent Map arguments.
C27_UnequalAtomsDifferentHash ==
    [][ (Called("add") /\ last'.atom \in HashAtoms) =>
            LET s == last'.s
                a == last'.atom
            IN  \A b \in HashAtoms :
                  (b.pred = a.pred /\ ~AtomEquals(a, b)) =>
                    /\ HashOf(a) # HashOf(b)
                    /\ Holds(store'[s], a)
                    /\ ~Holds(store'[s], b) => Add(store'[s], b).ok
                    /\ EstimateFactCount(Add(store'[s], b).rows) >= 2 ]_vars

\* C28: for every ground atom a and every store state, get called with a
\* itself as the pattern (and a callback that returns no error) yields exactly
\* one fact, equal to a, when contains(a) is true, and yields nothing when
\* contains(a) is false.
C28_GetOfGroundAtomIsContains ==
    (last.op = "get" /\ IsGround(last.atom) /\ last.failAt = 0) =>
        IF Contains(store[last.s], last.atom)
        THEN Len(last.out) = 1 /\ AtomEquals(last.out[1], last.atom)
        ELSE last.out = <<>>

\* The position, counted from 0, of the element an import failed to decode:
\* the first element the atom decoder rejects or, when every element decodes
\* and the closing "]" is missing, the position after the last element.
C29_FailedAt(stream) ==
    IF FirstInvalid(stream.elems) > 0 THEN FirstInvalid(stream.elems) - 1
    ELSE Len(stream.elems)

\* The rows the first m elements of an array add to the rows old, the
\* elements inserted in order and an element skipped when a row of its hash is
\* present: a row it had before or the row of an earlier element.
C29_RowsInserted(old, elems, m) ==
    { r \in C13_RowsBefore(elems, m + 1) :
        /\ \A o \in old : o.atom_hash # r.atom_hash
        /\ \E i \in 1..m :
              /\ C13_RowsBefore(<<elems[i]>>, 2) = {r}
              /\ \A j \in 1..(i - 1) :
                    \A q \in C13_RowsBefore(<<elems[j]>>, 2) :
                        q.atom_hash # r.atom_hash }

\* C29: when import fails on the element at 0-based position k of the input
\* array, exactly the atoms of the first batchSize * (k \div batchSize)
\* elements have been inserted (batchSize is 500 in the code): the rows of the
\* batches already flushed are in the store, each unless a row of its hash was
\* there before, and no atom decoded after the last flush has a row.
C29_FailedImportKeepsFlushedBatches ==
    [][ ( /\ Called("import")
          /\ last'.err = "failed to unmarshal atom from stream"
          /\ last'.io.failFlush = 0 ) =>
            LET stream == last'.io.stream
                k == C29_FailedAt(stream)
                flushed == batchSize * (k \div batchSize)
                old == store[last'.s]
            IN  /\ last'.io.flushes = k \div batchSize
                /\ store'[last'.s] =
                      old \cup C29_RowsInserted(old, stream.elems, flushed) ]_vars

\* An import failed on the third element of its array: the batch of the first
\* two elements was flushed and both of its atoms have rows in the store.
C29_Witness ==
    /\ last.op = "import"
    /\ last.err = "failed to unmarshal atom from stream"
    /\ last.io.failFlush = 0
    /\ C29_FailedAt(last.io.stream) = batchSize
    /\ last.io.flushes = 1
    /\ Cardinality(C13_RowsBefore(last.io.stream.elems, batchSize + 1)) = batchSize
    /\ C13_RowsBefore(last.io.stream.elems, batchSize + 1) \subseteq store[last.s]

\* C30: with any number of concurrent callers every store call eventually
\* returns, also a call of add, contains or remove made by a callback of get
\* while every connection of the pool is held by a get in progress.
C30_EveryCallReturns ==
    \A p \in Procs : (pc[p] # "idle") ~> (pc[p] = "idle")

====
